---- MODULE Spec2Model ----
(***************************************************************************)
(* A model of the CRISTIN annual-report generator (report_generator.py):   *)
(* the paginated registry client, the field extractors, the classifier,   *)
(* the reference formatter, the context builder and generate_report.       *)
(*                                                                         *)
(* Python strings are sequences of one-character strings, so that          *)
(* concatenation, substring tests, stripping and sorting are computed as   *)
(* the code computes them.  A character outside ASCII is written by its    *)
(* code point ("U+00E9").  Python values carry their type in field k;      *)
(* a raised exception is the value Raise(type).                            *)
(***************************************************************************)
EXTENDS Integers, Sequences, FiniteSets, TLC

(***************************************************************************)
(* String literals of the source.                                          *)
(***************************************************************************)
s_empty == <<>>
s_publisert_monografi_niva ==
    <<"p","u","b","l","i","s","e","r","t","_","m","o","n","o","g","r","a","f","i","_","n","i",
      "v","a">>
s_publisert_artikkel_niva ==
    <<"p","u","b","l","i","s","e","r","t","_","a","r","t","i","k","k","e","l","_","n","i","v",
      "a">>
s_publisert_antologi_niva ==
    <<"p","u","b","l","i","s","e","r","t","_","a","n","t","o","l","o","g","i","_","n","i","v",
      "a">>
s_publisert_book_review ==
    <<"p","u","b","l","i","s","e","r","t","_","b","o","o","k","_","r","e","v","i","e","w">>
s_publisert_annet == <<"p","u","b","l","i","s","e","r","t","_","a","n","n","e","t">>
s_forskningsarbeid_internasjonal_deltagelse ==
    <<"f","o","r","s","k","n","i","n","g","s","a","r","b","e","i","d","_","i","n","t","e","r",
      "n","a","s","j","o","n","a","l","_","d","e","l","t","a","g","e","l","s","e">>
s_forskningsarbeid_internasjonal_ledelse ==
    <<"f","o","r","s","k","n","i","n","g","s","a","r","b","e","i","d","_","i","n","t","e","r",
      "n","a","s","j","o","n","a","l","_","l","e","d","e","l","s","e">>
s_forskningsarbeid_nasjonal_deltagelse ==
    <<"f","o","r","s","k","n","i","n","g","s","a","r","b","e","i","d","_","n","a","s","j","o",
      "n","a","l","_","d","e","l","t","a","g","e","l","s","e">>
s_forskningsarbeid_nasjonal_ledelse ==
    <<"f","o","r","s","k","n","i","n","g","s","a","r","b","e","i","d","_","n","a","s","j","o",
      "n","a","l","_","l","e","d","e","l","s","e">>
s_forskningsarbeid_innvilget_soknad ==
    <<"f","o","r","s","k","n","i","n","g","s","a","r","b","e","i","d","_","i","n","n","v","i",
      "l","g","e","t","_","s","o","k","n","a","d">>
s_forskningsarbeid_utenlandsopphold ==
    <<"f","o","r","s","k","n","i","n","g","s","a","r","b","e","i","d","_","u","t","e","n","l",
      "a","n","d","s","o","p","p","h","o","l","d">>
s_forskningsarbeid_innovasjon ==
    <<"f","o","r","s","k","n","i","n","g","s","a","r","b","e","i","d","_","i","n","n","o","v",
      "a","s","j","o","n">>
s_forskningsarbeid_nasjonale_nettverk ==
    <<"f","o","r","s","k","n","i","n","g","s","a","r","b","e","i","d","_","n","a","s","j","o",
      "n","a","l","e","_","n","e","t","t","v","e","r","k">>
s_forskningsarbeid_internasjonale_nettverk ==
    <<"f","o","r","s","k","n","i","n","g","s","a","r","b","e","i","d","_","i","n","t","e","r",
      "n","a","s","j","o","n","a","l","e","_","n","e","t","t","v","e","r","k">>
s_formidling_faglig == <<"f","o","r","m","i","d","l","i","n","g","_","f","a","g","l","i","g">>
s_formidling_politisk ==
    <<"f","o","r","m","i","d","l","i","n","g","_","p","o","l","i","t","i","s","k">>
s_formidling_kronikker ==
    <<"f","o","r","m","i","d","l","i","n","g","_","k","r","o","n","i","k","k","e","r">>
s_formidling_popularvitenskapelig ==
    <<"f","o","r","m","i","d","l","i","n","g","_","p","o","p","u","l","a","r","v","i","t","e",
      "n","s","k","a","p","e","l","i","g">>
s_formidling_media == <<"f","o","r","m","i","d","l","i","n","g","_","m","e","d","i","a">>
s_veiledning_phd == <<"v","e","i","l","e","d","n","i","n","g","_","p","h","d">>
s_opponent_phd == <<"o","p","p","o","n","e","n","t","_","p","h","d">>
s_referee_vitenskapelige_artikler ==
    <<"r","e","f","e","r","e","e","_","v","i","t","e","n","s","k","a","p","e","l","i","g","e",
      "_","a","r","t","i","k","l","e","r">>
s_veiledning_masteroppgave ==
    <<"v","e","i","l","e","d","n","i","n","g","_","m","a","s","t","e","r","o","p","p","g","a",
      "v","e">>
s_sensur_masteroppgave ==
    <<"s","e","n","s","u","r","_","m","a","s","t","e","r","o","p","p","g","a","v","e">>
s_professor_vurderinger ==
    <<"p","r","o","f","e","s","s","o","r","_","v","u","r","d","e","r","i","n","g","e","r">>
s_report_year == <<"r","e","p","o","r","t","_","y","e","a","r">>
s_person_name == <<"p","e","r","s","o","n","_","n","a","m","e">>
s_institution_name == <<"i","n","s","t","i","t","u","t","i","o","n","_","n","a","m","e">>
s_institution_name_secondary ==
    <<"i","n","s","t","i","t","u","t","i","o","n","_","n","a","m","e","_","s","e","c","o","n",
      "d","a","r","y">>
s_ACADEMICLECTURE == <<"A","C","A","D","E","M","I","C","L","E","C","T","U","R","E">>
s_LECTURE == <<"L","E","C","T","U","R","E">>
s_POSTER == <<"P","O","S","T","E","R">>
s_OTHERPRES == <<"O","T","H","E","R","P","R","E","S">>
s_MEDIAINTERVIEW == <<"M","E","D","I","A","I","N","T","E","R","V","I","E","W">>
s_PROGRAMPARTICIP == <<"P","R","O","G","R","A","M","P","A","R","T","I","C","I","P">>
s_ARTICLEFEATURE == <<"A","R","T","I","C","L","E","F","E","A","T","U","R","E">>
s_READEROPINION == <<"R","E","A","D","E","R","O","P","I","N","I","O","N">>
s_ARTICLE == <<"A","R","T","I","C","L","E">>
s_TEXTBOOK == <<"T","E","X","T","B","O","O","K">>
s_book_review == <<"b","o","o","k"," ","r","e","v","i","e","w">>
s_bokanmeldelse == <<"b","o","k","a","n","m","e","l","d","e","l","s","e">>
s_monograph == <<"m","o","n","o","g","r","a","p","h">>
s_monografi == <<"m","o","n","o","g","r","a","f","i">>
s_book == <<"b","o","o","k">>
s_anthology == <<"a","n","t","h","o","l","o","g","y">>
s_antologi == <<"a","n","t","o","l","o","g","i">>
s_edited == <<"e","d","i","t","e","d">>
s_article == <<"a","r","t","i","c","l","e">>
s_artikkel == <<"a","r","t","i","k","k","e","l">>
s_interview == <<"i","n","t","e","r","v","i","e","w">>
s_poster == <<"p","o","s","t","e","r">>
s_presentation == <<"p","r","e","s","e","n","t","a","t","i","o","n">>
s_lecture == <<"l","e","c","t","u","r","e">>
s_Unknown_author == <<"U","n","k","n","o","w","n"," ","a","u","t","h","o","r">>
s_nd == <<"n",".","d",".">>
s_No_title_available ==
    <<"N","o"," ","t","i","t","l","e"," ","a","v","a","i","l","a","b","l","e">>
s_No_publication_information_available ==
    <<"N","o"," ","p","u","b","l","i","c","a","t","i","o","n"," ","i","n","f","o","r","m","a",
      "t","i","o","n"," ","a","v","a","i","l","a","b","l","e">>
s_NA == <<"N","/","A">>
s_Ukjent_navn == <<"U","k","j","e","n","t"," ","n","a","v","n">>
s_None == <<"N","o","n","e">>
s_True == <<"T","r","u","e">>
s_False == <<"F","a","l","s","e">>
s_DOI == <<"D","O","I">>
s_report == <<"r","e","p","o","r","t">>
s_year == <<"y","e","a","r">>
s_Aarsrapport_ == <<"A","a","r","s","r","a","p","p","o","r","t","_">>
s_docx == <<".","d","o","c","x">>
s_Volume == <<","," ","V","o","l","u","m","e"," ">>
s_pp == <<","," ","p","p","."," ">>
s_Doe == <<"D","o","e">>
s_Jane == <<"J","a","n","e">>
s_Sample_Publication ==
    <<"S","a","m","p","l","e"," ","P","u","b","l","i","c","a","t","i","o","n">>
s_Journal_of_Testing ==
    <<"J","o","u","r","n","a","l"," ","o","f"," ","T","e","s","t","i","n","g">>
s_doi_url ==
    <<"h","t","t","p","s",":","/","/","d","o","i",".","o","r","g","/","1","0",".","0","0","0",
      "0","/","e","x","a","m","p","l","e">>
s_Monograph == <<"M","o","n","o","g","r","a","p","h">>
s_Book_review == <<"B","o","o","k"," ","r","e","v","i","e","w">>
s_Journal_article == <<"J","o","u","r","n","a","l"," ","a","r","t","i","c","l","e">>
s_Anthology == <<"A","n","t","h","o","l","o","g","y">>
s_Interview == <<"I","n","t","e","r","v","i","e","w">>
s_Poster == <<"P","o","s","t","e","r">>
s_Report == <<"R","e","p","o","r","t">>
s_Edited_book_review ==
    <<"E","d","i","t","e","d"," ","b","o","o","k"," ","r","e","v","i","e","w">>
s_ANTOLOGI_padded == <<" ","A","N","T","O","L","O","G","I"," ">>
s_Programme_participation ==
    <<"P","r","o","g","r","a","m","m","e"," ","p","a","r","t","i","c","i","p","a","t","i","o",
      "n">>
s_Psykt_Interessant ==
    <<"P","s","y","k","t"," ","I","n","t","e","r","e","s","s","a","n","t","!">>
s_NRK == <<"N","R","K">>
s_REPORT_code == <<"R","E","P","O","R","T">>
s_2024 == <<"2","0","2","4">>
s_2023 == <<"2","0","2","3">>
s_id_padded == <<" ","4","2"," ">>
s_id_alnum == <<"1","2","a">>
s_Kari == <<"K","a","r","i">>
s_Nordmann == <<"N","o","r","d","m","a","n","n">>
s_Test_University == <<"T","e","s","t"," ","U","n","i","v","e","r","s","i","t","y">>
s_Universitetet_i_Oslo ==
    <<"U","n","i","v","e","r","s","i","t","e","t","e","t"," ","i"," ","O","s","l","o">>
s_University_of_Oslo ==
    <<"U","n","i","v","e","r","s","i","t","y"," ","o","f"," ","O","s","l","o">>
s_Kronikk ==
    <<"K","r","o","n","i","k","k"," ","i"," ","A","f","t","e","n","p","o","s","t","e","n",".">>
s_reports_dir == <<"r","e","p","o","r","t","s","/">>
s_unknown_key == <<"u","n","k","n","o","w","n","_","k","e","y">>
\* "Acad\u00e9mic article": the e with an acute accent is U+00E9
s_Academic_article_accent ==
    <<"A","c","a","d","U+00E9","m","i","c"," ","a","r","t","i","c","l","e">>
s_Bokanmeldelse_article ==
    <<"B","o","k","a","n","m","e","l","d","e","l","s","e",","," ","a","r","t","i","c","l","e">>

(***************************************************************************)
(* Characters.                                                             *)
(***************************************************************************)
\* ASCII 32 .. 126 in code-point order: ord(c) is 31 + the index of c.
\* The grave accent is written by its code point, "U+0060".
AsciiTable ==
    <<" ","!","\"","#","$","%","&","'","(",")","*","+",",","-",".","/",
      "0","1","2","3","4","5","6","7","8","9",":",";","<","=",">","?",
      "@","A","B","C","D","E","F","G","H","I","J","K","L","M","N","O",
      "P","Q","R","S","T","U","V","W","X","Y","Z","[","\\","]","^","_",
      "U+0060","a","b","c","d","e","f","g","h","i","j","k","l","m","n","o",
      "p","q","r","s","t","u","v","w","x","y","z","{","|","}","~">>

UpperLetters == SubSeq(AsciiTable, 34, 59)
LowerLetters == SubSeq(AsciiTable, 66, 91)
DigitChars == SubSeq(AsciiTable, 17, 26)

IndexOf(seq, c) == CHOOSE i \in 1..Len(seq) : seq[i] = c
InSeq(seq, c) == \E i \in 1..Len(seq) : seq[i] = c

\* Characters outside ASCII that the inputs use, with their code points and
\* their NFKD decompositions (unicodedata.normalize("NFKD", c)).
NonAscii ==
    [c \in {"U+00E9", "U+00F8", "U+00C5", "U+0301", "U+030A", "U+00B2"} |->
        CASE c = "U+00E9" -> [ord |-> 233, nfkd |-> <<"e", "U+0301">>]
          [] c = "U+00F8" -> [ord |-> 248, nfkd |-> <<"U+00F8">>]
          [] c = "U+00C5" -> [ord |-> 197, nfkd |-> <<"A", "U+030A">>]
          [] c = "U+0301" -> [ord |-> 769, nfkd |-> <<"U+0301">>]
          [] c = "U+030A" -> [ord |-> 778, nfkd |-> <<"U+030A">>]
          [] c = "U+00B2" -> [ord |-> 178, nfkd |-> <<"2">>]]

ord(c) ==
    IF InSeq(AsciiTable, c) THEN 31 + IndexOf(AsciiTable, c)
    ELSE IF c = "\t" THEN 9
    ELSE IF c = "\n" THEN 10
    ELSE NonAscii[c].ord

nfkd_char(c) == IF c \in DOMAIN NonAscii THEN NonAscii[c].nfkd ELSE <<c>>

lower_char(c) ==
    IF InSeq(UpperLetters, c) THEN LowerLetters[IndexOf(UpperLetters, c)] ELSE c

upper_char(c) ==
    IF InSeq(LowerLetters, c) THEN UpperLetters[IndexOf(LowerLetters, c)] ELSE c

\* str.isspace() of the characters in use.
is_space(c) == c \in {" ", "\t", "\n"}

\* str.isdigit() of one character: the ASCII digits, and also digits such
\* as the superscript two.
is_digit_char(c) == InSeq(DigitChars, c) \/ c = "U+00B2"

\* Body(v) for the value v of e: Python evaluates an argument or the right
\* side of an assignment once, and the name then holds the value.
Bind(e, Body(_)) == CHOOSE result \in {Body(v) : v \in {e}} : TRUE

(***************************************************************************)
(* String operations (str methods of Python).                              *)
(***************************************************************************)
MapSeq(F(_), s) == [i \in 1..Len(s) |-> F(s[i])]

RECURSIVE LStrip(_)
LStrip(s) == IF s # <<>> /\ is_space(Head(s)) THEN LStrip(Tail(s)) ELSE s

RECURSIVE RStrip(_)
RStrip(s) ==
    IF s # <<>> /\ is_space(s[Len(s)]) THEN RStrip(SubSeq(s, 1, Len(s) - 1)) ELSE s

\* str.strip()
strip(s) == RStrip(LStrip(s))

\* str.lower(), str.upper()
lower(s) == MapSeq(lower_char, s)
upper(s) == MapSeq(upper_char, s)

\* str.isdigit(): non-empty and every character a digit.
isdigit(s) == s # <<>> /\ \A i \in 1..Len(s) : is_digit_char(s[i])

\* needle in hay
Contains(hay, needle) ==
    \E i \in 0..(Len(hay) - Len(needle)) : SubSeq(hay, i + 1, i + Len(needle)) = needle

\* sep.join(parts)
RECURSIVE Join(_, _)
Join(sep, parts) ==
    IF parts = <<>> THEN <<>>
    ELSE IF Len(parts) = 1 THEN parts[1]
    ELSE parts[1] \o sep \o Join(sep, Tail(parts))

\* a < b on strings: lexicographic by code point.
RECURSIVE StrLess(_, _)
StrLess(a, b) ==
    IF b = <<>> THEN FALSE
    ELSE IF a = <<>> THEN TRUE
    ELSE IF Head(a) = Head(b) THEN StrLess(Tail(a), Tail(b))
    ELSE ord(Head(a)) < ord(Head(b))

\* list.sort() on a list of strings (stable, ascending).
RECURSIVE InsertSorted(_, _)
InsertSorted(s, sorted) ==
    IF sorted = <<>> THEN <<s>>
    ELSE IF StrLess(s, Head(sorted)) THEN <<s>> \o sorted
    ELSE <<Head(sorted)>> \o InsertSorted(s, Tail(sorted))

RECURSIVE SortStrings(_)
SortStrings(list) ==
    IF list = <<>> THEN <<>>
    ELSE InsertSorted(list[Len(list)], SortStrings(SubSeq(list, 1, Len(list) - 1)))

\* str(n) of an int.
RECURSIVE NatToStr(_)
NatToStr(n) ==
    IF n < 10 THEN <<DigitChars[n + 1]>>
    ELSE NatToStr(n \div 10) \o <<DigitChars[(n % 10) + 1]>>

IntToStr(n) == IF n < 0 THEN <<"-">> \o NatToStr(0 - n) ELSE NatToStr(n)

(***************************************************************************)
(* Python values.  Absent is what a lookup of a missing key finds; it is   *)
(* not a value a record holds.  A dict with the fixed keys the code reads  *)
(* is a TLA+ record whose missing keys are Absent; a multilingual mapping  *)
(* (language -> text), of which the code reads only values(), is the       *)
(* sequence of its values.                                                 *)
(***************************************************************************)
Absent == [k |-> "absent"]
None == [k |-> "none"]
PyInt(n) == [k |-> "int", i |-> n]
PyBool(b) == [k |-> "bool", b |-> b]
\* a float with an integral value n.0
PyFloat(n) == [k |-> "float", x |-> n]
PyStr(s) == [k |-> "str", s |-> s]
\* a dict with the fixed keys the code reads
PyDict(d) == [k |-> "dict", d |-> d]
\* a multilingual mapping, by its values
PyMap(vals) == [k |-> "map", m |-> vals]
\* a dict from field keys (strings) to values: a function on its keys
PyFields(f) == [k |-> "fields", f |-> f]
PyList(l) == [k |-> "list", l |-> l]
\* docxtpl.RichText holding the text added to it
RichText(s) == [k |-> "richtext", r |-> s]
Raise(e) == [k |-> "raise", e |-> e]

IsRaise(x) == x.k = "raise"
IsDict(x) == x.k \in {"dict", "map", "fields"}
IsStr(x) == x.k = "str"
EmptyDict == PyMap(<<>>)

\* bool(x)
Truthy(x) ==
    CASE x.k \in {"none", "absent"} -> FALSE
      [] x.k = "int" -> x.i # 0
      [] x.k = "float" -> x.x # 0
      [] x.k = "bool" -> x.b
      [] x.k = "str" -> x.s # <<>>
      [] x.k = "map" -> x.m # <<>>
      [] x.k = "list" -> x.l # <<>>
      [] x.k = "richtext" -> x.r # <<>>
      [] x.k = "dict" -> \E key \in DOMAIN x.d : x.d[key] # Absent
      [] x.k = "fields" -> DOMAIN x.f # {}

\* a or b
Or(a, b) == IF Truthy(a) THEN a ELSE b

\* d.get(key, default); AttributeError when d is no dict.
GetD(d, key, default) ==
    IF IsRaise(d) THEN d
    ELSE IF ~IsDict(d) THEN Raise("AttributeError")
    ELSE IF d.k = "dict" /\ key \in DOMAIN d.d /\ d.d[key] # Absent THEN d.d[key]
    ELSE IF d.k = "fields" /\ key \in DOMAIN d.f THEN d.f[key]
    ELSE default

\* d.get(key)
Get(d, key) == GetD(d, key, None)

\* str(x), also what an f-string makes of x.
str(x) ==
    CASE x.k = "none" -> s_None
      [] x.k = "int" -> IntToStr(x.i)
      [] x.k = "float" -> IntToStr(x.x) \o <<".", "0">>
      [] x.k = "bool" -> IF x.b THEN s_True ELSE s_False
      [] x.k = "str" -> x.s
      [] x.k = "richtext" -> x.r

\* a == b between a value and an int or str literal: bool and float compare
\* by their numeric value (True == 1, 1.0 == 1).
NumberOf(x) ==
    CASE x.k = "bool" -> IF x.b THEN 1 ELSE 0
      [] x.k = "int" -> x.i
      [] x.k = "float" -> x.x
PyEq(a, b) ==
    IF a.k \in {"int", "float", "bool"} /\ b.k \in {"int", "float", "bool"}
    THEN NumberOf(a) = NumberOf(b)
    ELSE a = b

\* hash(x) is defined: dicts and lists are unhashable.
Hashable(x) == x.k \notin {"dict", "map", "fields", "list"}

(***************************************************************************)
(* Constants of report_generator.py.                                       *)
(***************************************************************************)
PER_PAGE_DEFAULT == 100
MAX_PAGES_DEFAULT == 25

CATEGORY_KEYS ==
    << s_publisert_monografi_niva \o <<"2">>,
       s_publisert_monografi_niva \o <<"1">>,
       s_publisert_artikkel_niva \o <<"2">>,
       s_publisert_artikkel_niva \o <<"1">>,
       s_publisert_antologi_niva \o <<"2">>,
       s_publisert_antologi_niva \o <<"1">>,
       s_publisert_book_review,
       s_publisert_annet >>

MANUAL_FIELD_KEYS ==
    << s_forskningsarbeid_internasjonal_deltagelse,
       s_forskningsarbeid_internasjonal_ledelse,
       s_forskningsarbeid_nasjonal_deltagelse,
       s_forskningsarbeid_nasjonal_ledelse,
       s_forskningsarbeid_innvilget_soknad,
       s_forskningsarbeid_utenlandsopphold,
       s_forskningsarbeid_innovasjon,
       s_forskningsarbeid_nasjonale_nettverk,
       s_forskningsarbeid_internasjonale_nettverk,
       s_formidling_faglig,
       s_formidling_politisk,
       s_formidling_kronikker,
       s_formidling_popularvitenskapelig,
       s_formidling_media,
       s_veiledning_phd,
       s_opponent_phd,
       s_referee_vitenskapelige_artikler,
       s_veiledning_masteroppgave,
       s_sensur_masteroppgave,
       s_professor_vurderinger >>

REQUIRED_PLACEHOLDERS ==
    << s_report_year, s_person_name, s_institution_name, s_institution_name_secondary >>
        \o CATEGORY_KEYS \o MANUAL_FIELD_KEYS

NON_PUBLICATION_CATEGORY_CODES ==
    { s_ACADEMICLECTURE, s_LECTURE, s_POSTER, s_OTHERPRES, s_MEDIAINTERVIEW,
      s_PROGRAMPARTICIP, s_ARTICLEFEATURE, s_READEROPINION }

FORMIDLING_CATEGORY_MAP ==
    [code \in NON_PUBLICATION_CATEGORY_CODES |->
        CASE code \in {s_ACADEMICLECTURE, s_LECTURE, s_POSTER, s_OTHERPRES} ->
                s_formidling_faglig
          [] code \in {s_MEDIAINTERVIEW, s_PROGRAMPARTICIP} -> s_formidling_media
          [] code \in {s_ARTICLEFEATURE, s_READEROPINION} -> s_formidling_kronikker]

Range(seq) == {seq[i] : i \in 1..Len(seq)}

(***************************************************************************)
(* Field extractors.                                                       *)
(***************************************************************************)
RECURSIVE NfkdAscii(_)
NfkdAscii(s) ==
    IF s = <<>> THEN <<>>
    ELSE SelectSeq(nfkd_char(Head(s)), LAMBDA c : ord(c) < 128) \o NfkdAscii(Tail(s))

\* normalize_text: NFKD, drop what is not ASCII, lowercase, strip.
normalize_text(text) == strip(lower(NfkdAscii(text)))

\* next((value for value in d.values() if value), None)
RECURSIVE FirstTruthy(_)
FirstTruthy(vals) ==
    IF vals = <<>> THEN None
    ELSE IF Truthy(Head(vals)) THEN Head(vals)
    ELSE FirstTruthy(Tail(vals))

\* extract_category_code_name: <<code, name>>
extract_category_code_name(item) ==
    LET category == Get(item, "category") IN
    IF ~IsDict(category) THEN <<None, None>>
    ELSE LET code == Get(category, "code")
             name_obj == Get(category, "name")
             name == IF name_obj.k = "map" THEN FirstTruthy(name_obj.m)
                     ELSE IF IsStr(name_obj) THEN name_obj
                     ELSE None
         IN <<code, name>>

\* get_title: the first truthy value of the title mapping, the stripped
\* title string, or the fallback.
get_title(item) ==
    LET title_obj == GetD(item, "title", EmptyDict) IN
    IF title_obj.k = "map" /\ FirstTruthy(title_obj.m) # None
    THEN FirstTruthy(title_obj.m)
    ELSE IF IsStr(title_obj) /\ strip(title_obj.s) # <<>> THEN PyStr(strip(title_obj.s))
    ELSE PyStr(s_No_title_available)

\* extract_doi: the url of the first link typed DOI that has one, else None.
RECURSIVE FirstDoi(_)
FirstDoi(links) ==
    IF links = <<>> THEN None
    ELSE LET link == Head(links)
             url_type == GetD(link, "url_type", PyStr(s_empty)) IN
         IF IsRaise(url_type) THEN url_type
         ELSE IF upper(str(url_type)) = s_DOI /\ Truthy(Get(link, "url"))
         THEN Get(link, "url")
         ELSE FirstDoi(Tail(links))

extract_doi(item) ==
    LET links == GetD(item, "links", PyList(<<>>)) IN
    IF links.k # "list" THEN Raise("TypeError") ELSE FirstDoi(links.l)

\* extract_year: the year as a string, "" when there is none.
extract_year(item) ==
    LET year == Or(Or(Get(item, "year_published"), Get(item, "year")), PyStr(s_empty)) IN
    IF Truthy(year) THEN str(year) ELSE s_empty

\* One contributor as "Surname, First"; <<>> when both parts are empty.
AuthorName(author) ==
    LET surname == strip(str(GetD(author, "surname", PyStr(s_empty))))
        first_name == strip(str(GetD(author, "first_name", PyStr(s_empty)))) IN
    Join(<<",", " ">>, SelectSeq(<<surname, first_name>>, LAMBDA part : part # <<>>))

\* format_authors
format_authors(item) ==
    LET preview == GetD(GetD(item, "contributors", EmptyDict), "preview", PyList(<<>>)) IN
    IF IsRaise(preview) THEN preview
    ELSE IF preview.k # "list" THEN Raise("TypeError")
    ELSE IF \E i \in 1..Len(preview.l) : ~IsDict(preview.l[i]) THEN Raise("AttributeError")
    ELSE LET authors == SelectSeq(MapSeq(AuthorName, preview.l), LAMBDA a : a # <<>>) IN
         IF authors = <<>> THEN PyStr(s_Unknown_author)
         ELSE PyStr(Join(<<";", " ">>, authors))

\* journal.name or event.name or channel.title or the fallback, evaluated
\* left to right: a later lookup is not made once an earlier one is truthy.
publication_info(item) ==
    LET journal_name == Get(GetD(item, "journal", EmptyDict), "name")
        event_name == Get(GetD(item, "event", EmptyDict), "name")
        channel_title == Get(GetD(item, "channel", EmptyDict), "title") IN
    IF IsRaise(journal_name) \/ Truthy(journal_name) THEN journal_name
    ELSE IF IsRaise(event_name) \/ Truthy(event_name) THEN event_name
    ELSE IF IsRaise(channel_title) \/ Truthy(channel_title) THEN channel_title
    ELSE PyStr(s_No_publication_information_available)

\* format_reference
format_reference(item) ==
    LET authors == format_authors(item)
        year == IF extract_year(item) # <<>> THEN extract_year(item) ELSE s_nd
        title == get_title(item)
        info == publication_info(item)
        volume == Or(Get(item, "volume"), PyStr(s_NA))
        pages_obj == IF IsDict(Get(item, "pages")) THEN Get(item, "pages") ELSE EmptyDict
        pages == str(GetD(pages_obj, "from", PyStr(s_NA))) \o <<"-">>
                    \o str(GetD(pages_obj, "to", PyStr(s_NA)))
        doi == extract_doi(item)
        reference == str(authors) \o <<" ", "(">> \o year \o <<")", ".", " ">>
                        \o str(title) \o <<".", " ">> \o str(info) \o s_Volume
                        \o str(volume) \o s_pp \o pages \o <<".">>
    IN
    IF IsRaise(authors) THEN authors
    ELSE IF IsRaise(info) THEN info
    ELSE IF IsRaise(doi) THEN doi
    ELSE IF Truthy(doi) THEN PyStr(reference \o <<" ">> \o str(doi) \o <<".">>)
    ELSE PyStr(reference)

\* The candidates of extract_level, in the order of the list.
LevelCandidates(item) ==
    << Get(item, "level"),
       Get(item, "publication_level"),
       Get(item, "scientific_level"),
       Get(GetD(item, "publication_context", EmptyDict), "level"),
       Get(GetD(item, "publicationContext", EmptyDict), "level"),
       Get(GetD(item, "publication_channel", EmptyDict), "level"),
       Get(GetD(item, "publicationChannel", EmptyDict), "level"),
       Get(GetD(item, "channel", EmptyDict), "level"),
       Get(GetD(item, "journal", EmptyDict), "level"),
       Get(GetD(item, "channel", EmptyDict), "nvi_level"),
       Get(GetD(item, "journal", EmptyDict), "nvi_level") >>

\* value in (1, 2, "1", "2")
IsLevelValue(value) ==
    \E x \in {PyInt(1), PyInt(2), PyStr(<<"1">>), PyStr(<<"2">>)} : PyEq(value, x)

RECURSIVE FirstLevel(_)
FirstLevel(candidates) ==
    IF candidates = <<>> THEN None
    ELSE IF IsLevelValue(Head(candidates)) THEN PyStr(str(Head(candidates)))
    ELSE FirstLevel(Tail(candidates))

\* extract_level: the list of candidates is built first (a lookup in a
\* container that is no dict raises), then scanned.
extract_level(item) ==
    LET candidates == LevelCandidates(item) IN
    IF \E i \in 1..Len(candidates) : IsRaise(candidates[i])
    THEN Raise("AttributeError")
    ELSE FirstLevel(candidates)

(***************************************************************************)
(* Classifier.                                                             *)
(***************************************************************************)
\* f"{prefix}{level}" with level = extract_level(item) or "1"
LevelledKey(prefix, item) ==
    LET level == extract_level(item) IN
    IF IsRaise(level) THEN level
    ELSE PyStr(prefix \o str(Or(level, PyStr(<<"1">>))))

\* The label rules with the monograph rule moved before the book-review
\* rule.
ClassifyByLabel_BookFirst(normalized, item) ==
    IF Contains(normalized, s_monograph) \/ Contains(normalized, s_monografi)
            \/ Contains(normalized, s_book)
    THEN LevelledKey(s_publisert_monografi_niva, item)
    ELSE IF Contains(normalized, s_book_review) \/ Contains(normalized, s_bokanmeldelse)
    THEN PyStr(s_publisert_book_review)
    ELSE IF Contains(normalized, s_anthology) \/ Contains(normalized, s_antologi)
            \/ Contains(normalized, s_edited)
    THEN LevelledKey(s_publisert_antologi_niva, item)
    ELSE IF Contains(normalized, s_article) \/ Contains(normalized, s_artikkel)
    THEN LevelledKey(s_publisert_artikkel_niva, item)
    ELSE PyStr(s_publisert_annet)

\* The rules that read the normalized label, in the order of the code.
ClassifyByLabel(normalized, item) ==
    IF Contains(normalized, s_book_review) \/ Contains(normalized, s_bokanmeldelse)
    THEN PyStr(s_publisert_book_review)
    ELSE IF Contains(normalized, s_monograph) \/ Contains(normalized, s_monografi)
            \/ Contains(normalized, s_book)
    THEN LevelledKey(s_publisert_monografi_niva, item)
    ELSE IF Contains(normalized, s_anthology) \/ Contains(normalized, s_antologi)
            \/ Contains(normalized, s_edited)
    THEN LevelledKey(s_publisert_antologi_niva, item)
    ELSE IF Contains(normalized, s_article) \/ Contains(normalized, s_artikkel)
    THEN LevelledKey(s_publisert_artikkel_niva, item)
    ELSE PyStr(s_publisert_annet)

\* The rules that read the category code; they come before the label rules.
ClassifyByCode(category_code, normalized, item) ==
    IF category_code = PyStr(s_ARTICLE) THEN LevelledKey(s_publisert_artikkel_niva, item)
    ELSE IF category_code = PyStr(s_TEXTBOOK)
    THEN LevelledKey(s_publisert_monografi_niva, item)
    ELSE ClassifyByLabel(normalized, item)

\* category_code in NON_PUBLICATION_CATEGORY_CODES
IsNonPublicationCode(category_code) ==
    IsStr(category_code) /\ category_code.s \in NON_PUBLICATION_CATEGORY_CODES

\* classify_publication: a category key, None (not a publication) or a raise.
classify_publication(item) ==
    LET category_code == extract_category_code_name(item)[1]
        category_label == Or(extract_category_code_name(item)[2], PyStr(s_empty)) IN
    IF ~Hashable(category_code) THEN Raise("TypeError")
    ELSE IF IsNonPublicationCode(category_code) THEN None
    ELSE IF ~IsStr(category_label) THEN Raise("TypeError")
    ELSE ClassifyByCode(category_code, normalize_text(category_label.s), item)

(***************************************************************************)
(* Context builder.                                                        *)
(***************************************************************************)
\* PublicationEntry(reference, category_key, year)
PublicationEntry(reference, category_key, year) ==
    [reference |-> reference, category_key |-> category_key, year |-> year]

\* One pass of the loop of build_entries over items[i..]: the entries
\* appended, or the exception that classify_publication or format_reference
\* raised on the way.
RECURSIVE BuildEntriesFrom(_, _, _)
BuildEntriesFrom(items, year_str, entries) ==
    IF items = <<>> THEN PyList(entries)
    ELSE IF extract_year(Head(items)) # year_str
    THEN BuildEntriesFrom(Tail(items), year_str, entries)
    ELSE Bind(classify_publication(Head(items)), LAMBDA category_key :
         IF IsRaise(category_key) THEN category_key
         ELSE IF ~Truthy(category_key) THEN BuildEntriesFrom(Tail(items), year_str, entries)
         ELSE Bind(format_reference(Head(items)), LAMBDA reference :
              IF IsRaise(reference) THEN reference
              ELSE BuildEntriesFrom(Tail(items), year_str,
                       Append(entries, PublicationEntry(reference.s, category_key.s,
                                                        extract_year(Head(items)))))))

\* build_entries
build_entries(items, report_year) ==
    Bind(items, LAMBDA list : BuildEntriesFrom(list, str(report_year), <<>>))

\* group_references without refs.sort(): the references of a bucket stay in
\* the order of the entries.
group_references_Unsorted(entries) ==
    Bind(entries, LAMBDA list :
        [key \in Range(CATEGORY_KEYS) \cup {list[i].category_key : i \in 1..Len(list)} |->
            MapSeq(LAMBDA e : e.reference,
                   SelectSeq(list, LAMBDA e : e.category_key = key))])

\* group_references: every key of CATEGORY_KEYS, and every other key an
\* entry carries (setdefault), with its references sorted.
group_references(entries) ==
    Bind(entries, LAMBDA list :
        [key \in Range(CATEGORY_KEYS) \cup {list[i].category_key : i \in 1..Len(list)} |->
            SortStrings(MapSeq(LAMBDA e : e.reference,
                               SelectSeq(list, LAMBDA e : e.category_key = key)))])

\* join_refs of build_template_context: "" for an empty bucket, else the
\* references added to a RichText with a blank line between them.
join_refs(grouped, key) ==
    LET refs == IF key \in DOMAIN grouped THEN grouped[key] ELSE <<>> IN
    IF refs = <<>> THEN PyStr(s_empty) ELSE RichText(Join(<<"\n", "\n">>, refs))

\* fields.get(key, "") of a mapping from field keys to values.
FieldGet(fields, key) == IF key \in DOMAIN fields.f THEN fields.f[key] ELSE PyStr(s_empty)

\* {} as a mapping from field keys
NoFields == PyFields([key \in {} |-> None])

\* The four scalar keys of the context literal.
HeaderKeys == {s_report_year, s_person_name, s_institution_name, s_institution_name_secondary}

\* build_template_context filling a bucket for every key of grouped
\* instead of every key of CATEGORY_KEYS.
build_template_context_GroupedKeys(entries, report_year, person_name, institution_name, institution_name_secondary, manual_fields) ==
    Bind(group_references(entries), LAMBDA grouped :
    [key \in HeaderKeys \cup DOMAIN grouped \cup Range(MANUAL_FIELD_KEYS) |->
        IF key = s_report_year THEN PyStr(str(report_year))
        ELSE IF key = s_person_name THEN PyStr(person_name)
        ELSE IF key = s_institution_name THEN PyStr(institution_name)
        ELSE IF key = s_institution_name_secondary THEN PyStr(institution_name_secondary)
        ELSE IF key \in DOMAIN grouped THEN join_refs(grouped, key)
        ELSE IF Truthy(manual_fields) THEN PyStr(strip(str(FieldGet(manual_fields, key))))
        ELSE PyStr(s_empty)])

\* build_template_context; the names are strings, manual_fields is None or
\* a mapping. The context holds the four scalar keys, then a bucket for
\* every key of CATEGORY_KEYS, then every key of MANUAL_FIELD_KEYS.
build_template_context(entries, report_year, person_name, institution_name, institution_name_secondary, manual_fields) ==
    Bind(group_references(entries), LAMBDA grouped :
    [key \in HeaderKeys \cup Range(CATEGORY_KEYS) \cup Range(MANUAL_FIELD_KEYS) |->
        IF key \in Range(MANUAL_FIELD_KEYS)
        THEN IF Truthy(manual_fields) THEN PyStr(strip(str(FieldGet(manual_fields, key))))
             ELSE PyStr(s_empty)
        ELSE IF key \in Range(CATEGORY_KEYS) THEN join_refs(grouped, key)
        ELSE IF key = s_report_year THEN PyStr(str(report_year))
        ELSE IF key = s_person_name THEN PyStr(person_name)
        ELSE IF key = s_institution_name THEN PyStr(institution_name)
        ELSE PyStr(institution_name_secondary)])

\* (item.get(key) or {}).get(name)
GetOrEmpty(item, key, name) == Get(Or(Get(item, key), EmptyDict), name)

\* format_formidling_entry
format_formidling_entry(item) ==
    LET title == get_title(item)
        year == IF extract_year(item) # <<>> THEN extract_year(item) ELSE s_nd
        authors == format_authors(item)
        event_name == GetOrEmpty(item, "event", "name")
        event_location == GetOrEmpty(item, "event", "location")
        channel_title == GetOrEmpty(item, "channel", "title")
        journal_name == GetOrEmpty(item, "journal", "name")
        channel == IF IsRaise(channel_title) \/ Truthy(channel_title) THEN channel_title
                   ELSE journal_name
        head == IF authors # PyStr(s_Unknown_author)
                THEN str(authors) \o <<" ", "(">> \o year \o <<")", ".", " ">>
                        \o str(title) \o <<".">>
                ELSE str(title) \o <<" ", "(">> \o year \o <<")", ".">>
        venue == IF Truthy(event_location)
                 THEN str(event_name) \o <<",", " ">> \o str(event_location)
                 ELSE str(event_name)
        parts == IF Truthy(event_name) THEN <<head, venue \o <<".">> >>
                 ELSE IF Truthy(channel) THEN <<head, str(channel) \o <<".">> >>
                 ELSE <<head>>
    IN
    IF IsRaise(authors) THEN authors
    ELSE IF IsRaise(event_name) THEN event_name
    ELSE IF IsRaise(channel) THEN channel
    ELSE PyStr(strip(Join(<<" ">>, parts)))

\* The manual field of build_auto_manual_fields for an item of the report
\* year: by category code, else by a word of the label; None when neither.
manual_key_of(item) ==
    LET category_code == extract_category_code_name(item)[1]
        category_label == extract_category_code_name(item)[2]
        normalized == normalize_text(category_label.s) IN
    IF Truthy(category_code) /\ ~Hashable(category_code) THEN Raise("TypeError")
    ELSE IF Truthy(category_code) /\ IsNonPublicationCode(category_code)
    THEN PyStr(FORMIDLING_CATEGORY_MAP[category_code.s])
    ELSE IF ~Truthy(category_label) THEN None
    ELSE IF ~IsStr(category_label) THEN Raise("TypeError")
    ELSE IF Contains(normalized, s_interview) THEN PyStr(s_formidling_media)
    ELSE IF Contains(normalized, s_poster) \/ Contains(normalized, s_presentation)
            \/ Contains(normalized, s_lecture)
    THEN PyStr(s_formidling_faglig)
    ELSE None

\* The loop of build_auto_manual_fields: grouped maps each manual-field key
\* to the list of the entries filed under it so far.
RECURSIVE AutoManualFrom(_, _, _)
AutoManualFrom(items, year_str, grouped) ==
    IF items = <<>> THEN PyFields(grouped)
    ELSE IF extract_year(Head(items)) # year_str
    THEN AutoManualFrom(Tail(items), year_str, grouped)
    ELSE Bind(manual_key_of(Head(items)), LAMBDA manual_key :
         IF IsRaise(manual_key) THEN manual_key
         ELSE IF ~Truthy(manual_key) THEN AutoManualFrom(Tail(items), year_str, grouped)
         ELSE Bind(format_formidling_entry(Head(items)), LAMBDA entry :
              IF IsRaise(entry) THEN entry
              ELSE AutoManualFrom(Tail(items), year_str,
                       [grouped EXCEPT ![manual_key.s] = Append(@, entry.s)])))

\* The lists of build_auto_manual_fields before they are joined.
auto_manual_grouped(items, report_year) ==
    Bind(items, LAMBDA list :
        AutoManualFrom(list, str(report_year), [key \in Range(MANUAL_FIELD_KEYS) |-> <<>>]))

\* build_auto_manual_fields: each list joined with a blank line.
build_auto_manual_fields(items, report_year) ==
    Bind(auto_manual_grouped(items, report_year), LAMBDA grouped :
        IF IsRaise(grouped) THEN grouped
        ELSE PyFields([key \in DOMAIN grouped.f |->
                          PyStr(Join(<<"\n", "\n">>, grouped.f[key]))]))

\* The user text replacing the automatic text instead of following it.
merge_manual_fields_UserOverrides(auto_fields, manual_fields) ==
    Bind(<<auto_fields, Or(manual_fields, NoFields)>>, LAMBDA fields :
    PyFields([key \in Range(MANUAL_FIELD_KEYS) |->
        LET auto_value == strip(str(FieldGet(fields[1], key)))
            manual_value == strip(str(FieldGet(fields[2], key))) IN
        IF manual_value # <<>> THEN PyStr(manual_value) ELSE PyStr(auto_value)]))

\* merge_manual_fields; auto_fields is a mapping, manual_fields None or one.
merge_manual_fields(auto_fields, manual_fields) ==
    Bind(<<auto_fields, Or(manual_fields, NoFields)>>, LAMBDA fields :
    PyFields([key \in Range(MANUAL_FIELD_KEYS) |->
        LET auto_value == strip(str(FieldGet(fields[1], key)))
            manual_value == strip(str(FieldGet(fields[2], key))) IN
        IF auto_value # <<>> /\ manual_value # <<>>
        THEN PyStr(auto_value \o <<"\n", "\n">> \o manual_value)
        ELSE IF manual_value # <<>> THEN PyStr(manual_value)
        ELSE PyStr(auto_value)]))

(***************************************************************************)
(* Person metadata and the output file name.                               *)
(***************************************************************************)
\* str(person.get(key, "")).strip()
PersonField(person, key) == strip(str(GetD(person, key, PyStr(s_empty))))

RECURSIVE FirstNamePair(_, _)
FirstNamePair(person, pairs) ==
    IF pairs = <<>> THEN <<>>
    ELSE LET first == PersonField(person, pairs[1][1])
             last == PersonField(person, pairs[1][2]) IN
         IF first # <<>> \/ last # <<>>
         THEN Join(<<" ">>, SelectSeq(<<first, last>>, LAMBDA part : part # <<>>))
         ELSE FirstNamePair(person, Tail(pairs))

RECURSIVE FirstFullName(_, _)
FirstFullName(person, keys) ==
    IF keys = <<>> THEN s_Ukjent_navn
    ELSE IF PersonField(person, Head(keys)) # <<>> THEN PersonField(person, Head(keys))
    ELSE FirstFullName(person, Tail(keys))

\* extract_person_name
extract_person_name(person) ==
    LET paired == FirstNamePair(person, << <<"first_name", "surname">>,
                                           <<"given_name", "family_name">>,
                                           <<"firstName", "lastName">> >>) IN
    IF paired # <<>> THEN paired
    ELSE FirstFullName(person, <<"full_name", "display_name", "name">>)

\* The names one affiliation appends to names: every truthy value of a
\* name mapping, stripped, or the stripped name string when it is not blank.
AffiliationNames(aff) ==
    LET org == Or(Or(Get(aff, "organization"), Get(aff, "institution")), EmptyDict)
        name_obj == Or(Or(Get(org, "name"), Get(org, "name_short")), Get(org, "title")) IN
    IF name_obj.k = "map"
    THEN MapSeq(LAMBDA value : strip(str(value)), SelectSeq(name_obj.m, Truthy))
    ELSE IF IsStr(name_obj) /\ strip(name_obj.s) # <<>> THEN <<strip(name_obj.s)>>
    ELSE <<>>

RECURSIVE AllAffiliationNames(_)
AllAffiliationNames(affiliations) ==
    IF affiliations = <<>> THEN <<>>
    ELSE AffiliationNames(Head(affiliations)) \o AllAffiliationNames(Tail(affiliations))

\* The dedup loop: stop as soon as two names are kept.
RECURSIVE Dedupe(_, _)
Dedupe(names, deduped) ==
    IF names = <<>> \/ Len(deduped) >= 2 THEN deduped
    ELSE IF Head(names) # <<>> /\ ~InSeq(deduped, Head(names))
    THEN Dedupe(Tail(names), Append(deduped, Head(names)))
    ELSE Dedupe(Tail(names), deduped)

\* extract_affiliation_names: <<primary, secondary>>
extract_affiliation_names(person) ==
    LET affiliations == Or(Or(Get(person, "affiliations"), Get(person, "employments")),
                           PyList(<<>>))
        deduped == Dedupe(AllAffiliationNames(affiliations.l), <<>>) IN
    << IF Len(deduped) > 0 THEN deduped[1] ELSE s_empty,
       IF Len(deduped) > 1 THEN deduped[2] ELSE s_empty >>

\* The character class of the first re.sub without the backslash.
RemoveReserved_KeepsBackslash(s) ==
    SelectSeq(s, LAMBDA c : c \notin {"<", ">", ":", "\"", "/", "|", "?", "*"})

\* The first re.sub of sanitize_filename: every character of the class
\* (less-than, greater-than, colon, double quote, slash, backslash, bar,
\* question mark, star) is removed.
RemoveReserved(s) ==
    SelectSeq(s, LAMBDA c : c \notin {"<", ">", ":", "\"", "/", "\\", "|", "?", "*"})

\* The second re.sub: its pattern, a raw string, is a backslash followed
\* by one or more letters s; each match becomes one space.
RECURSIVE SkipS(_)
SkipS(s) == IF s # <<>> /\ Head(s) = "s" THEN SkipS(Tail(s)) ELSE s

RECURSIVE ReplaceBackslashS(_)
ReplaceBackslashS(s) ==
    IF s = <<>> THEN <<>>
    ELSE IF Head(s) = "\\" /\ Len(s) > 1 /\ s[2] = "s"
    THEN <<" ">> \o ReplaceBackslashS(SkipS(Tail(s)))
    ELSE <<Head(s)>> \o ReplaceBackslashS(Tail(s))

\* str.rstrip(". ")
RECURSIVE RStripDotSpace(_)
RStripDotSpace(s) ==
    IF s # <<>> /\ s[Len(s)] \in {".", " "} THEN RStripDotSpace(SubSeq(s, 1, Len(s) - 1))
    ELSE s

\* sanitize_filename(value, fallback), value a string.
sanitize_filename(value, fallback) ==
    LET cleaned == RStripDotSpace(strip(ReplaceBackslashS(RemoveReserved(strip(value))))) IN
    IF strip(value) = <<>> THEN fallback
    ELSE IF cleaned = <<>> THEN fallback
    ELSE cleaned

\* build_output_filename
build_output_filename(person_name, person_id, report_year) ==
    LET safe_name == sanitize_filename(person_name,
                                       sanitize_filename(str(person_id), s_report))
        safe_year == sanitize_filename(str(report_year), s_year) IN
    s_Aarsrapport_ \o safe_year \o <<"_">> \o safe_name \o s_docx

\* find_missing_placeholders: sorted(set(required) - present)
find_missing_placeholders(present, required_placeholders) ==
    SortStrings(SelectSeq(required_placeholders, LAMBDA key : key \notin present))

(***************************************************************************)
(* Bounds of the model.                                                    *)
(***************************************************************************)
\* Pages of one fetch on which the endpoint chooses freely what it sends,
\* the empty page included; an endpoint still sending records after them
\* never sends an empty page, and repeats its last record.
MaxDataPages == 2
\* The values of max_pages tried besides the default: 0 .. MaxPagesArg.
MaxPagesArg == 2
\* The longest list of records handed to build_entries and
\* build_auto_manual_fields when they are called on their own.
MaxItems == 2
\* The longest list of entries handed to group_references and
\* build_template_context when they are called on their own.
MaxEntries == 3
\* The longest person_name handed to sanitize_filename and
\* build_output_filename when they are called on their own.
MaxNameLen == 3
\* The longest list of affiliations of a person payload handed to
\* extract_affiliation_names when it is called on its own.
MaxAffiliations == 2

(***************************************************************************)
(* Inputs: raw records, person records, templates.                         *)
(***************************************************************************)
\* A record with none of the keys the code reads.
ItemFields ==
    [category |-> Absent, year_published |-> Absent, year |-> Absent, level |-> Absent,
     publication_level |-> Absent, scientific_level |-> Absent,
     publication_context |-> Absent, publicationContext |-> Absent,
     publication_channel |-> Absent, publicationChannel |-> Absent,
     channel |-> Absent, journal |-> Absent, event |-> Absent, contributors |-> Absent,
     title |-> Absent, volume |-> Absent, pages |-> Absent, links |-> Absent]

Category(code, name) == PyDict([code |-> code, name |-> name])
Journal(name, level) == PyDict([name |-> name, level |-> level, nvi_level |-> Absent])
Channel(title, nvi_level) == PyDict([title |-> title, level |-> Absent, nvi_level |-> nvi_level])
Label(text) == PyMap(<<PyStr(text)>>)

\* sample_record of the tests: every field present.
SampleFields ==
    [ItemFields EXCEPT
        !.contributors = PyDict([preview |->
            PyList(<<PyDict([surname |-> PyStr(s_Doe), first_name |-> PyStr(s_Jane)])>>)]),
        !.year_published = PyInt(2024),
        !.title = PyMap(<<PyStr(s_Sample_Publication)>>),
        !.journal = Journal(PyStr(s_Journal_of_Testing), PyStr(<<"2">>)),
        !.volume = PyStr(<<"1", "2">>),
        !.pages = PyDict([from |-> PyStr(<<"1", "0">>), to |-> PyStr(<<"2", "0">>)]),
        !.links = PyList(<<PyDict([url_type |-> PyStr(s_DOI), url |-> PyStr(s_doi_url)])>>),
        !.category = Category(Absent, Label(s_Journal_article))]

\* Category codes: absent, null, the two codes with a rule of their own,
\* two of the non-publication codes, and a code with no rule.
Codes ==
    {Absent, None, PyStr(s_ARTICLE), PyStr(s_TEXTBOOK), PyStr(s_MEDIAINTERVIEW),
     PyStr(s_LECTURE), PyStr(s_REPORT_code)}

\* Category names: absent, null, a plain string, an empty mapping, and
\* mappings whose first value is empty.
Labels ==
    {Absent, None, PyStr(s_Monograph), PyMap(<<>>)}
        \cup {PyMap(<<PyStr(s_empty), PyStr(text)>>) :
                text \in {s_Monograph, s_Book_review, s_Journal_article, s_Anthology,
                          s_Interview, s_Poster, s_Report, s_Edited_book_review,
                          s_ANTOLOGI_padded, s_Academic_article_accent,
                          s_Bokanmeldelse_article}}

Categories == {Absent, None} \cup {Category(code, name) : code \in Codes, name \in Labels}

\* Values of the top-level level field, of journal and of channel.
Levels ==
    {Absent, None, PyInt(1), PyStr(<<"2">>), PyInt(3), PyBool(TRUE), PyFloat(2)}
Journals ==
    {Absent, None, Journal(PyStr(s_Journal_of_Testing), Absent),
     Journal(PyStr(s_Journal_of_Testing), PyStr(<<"1">>))}
Channels == {Absent, None, Channel(PyStr(s_NRK), PyInt(2))}

\* The records classify_publication and extract_level are called on.
Items ==
    {PyDict([ItemFields EXCEPT !.category = c, !.level = l, !.journal = j, !.channel = ch]) :
        c \in Categories, l \in Levels, j \in Journals, ch \in Channels}

\* Records for the list operations: sample_record with its year varied,
\* with its category varied, with a null container, and without a year.
WithYear(year_published, year) ==
    PyDict([SampleFields EXCEPT !.year_published = year_published, !.year = year,
                               !.category = Category(PyStr(s_ARTICLE), Label(s_Journal_article))])
WithCategory(category) == PyDict([SampleFields EXCEPT !.category = category])

YearItems ==
    {WithYear(Absent, Absent), WithYear(None, Absent), WithYear(PyStr(s_empty), Absent),
     WithYear(PyInt(0), Absent), WithYear(PyInt(2023), PyInt(2024)),
     WithYear(PyInt(2024), Absent), WithYear(PyStr(s_2024), Absent),
     WithYear(Absent, PyInt(2024))}

CategoryItems ==
    {WithCategory(Category(PyStr(s_ARTICLE), Label(s_Monograph))),
     WithCategory(Category(PyStr(s_TEXTBOOK), Label(s_Journal_article))),
     WithCategory(Category(PyStr(s_MEDIAINTERVIEW), Label(s_Journal_article))),
     WithCategory(Category(PyStr(s_PROGRAMPARTICIP), Absent)),
     WithCategory(Category(PyStr(s_LECTURE), Label(s_Poster))),
     WithCategory(Category(Absent, Label(s_Book_review))),
     WithCategory(Category(Absent, Label(s_Interview))),
     WithCategory(Absent)}

\* test_build_auto_manual_fields_maps_programme_participation
ProgrammeItem ==
    PyDict([ItemFields EXCEPT
        !.category = Category(PyStr(s_PROGRAMPARTICIP), Label(s_Programme_participation)),
        !.year_published = PyInt(2024),
        !.title = PyMap(<<PyStr(s_Psykt_Interessant)>>)])

NullJournalItem ==
    PyDict([SampleFields EXCEPT !.journal = None,
                               !.category = Category(PyStr(s_ARTICLE), Label(s_Journal_article))])
NullContributorsItem ==
    PyDict([SampleFields EXCEPT !.contributors = None,
                               !.category = Category(PyStr(s_MEDIAINTERVIEW), Label(s_Interview))])
YearlessInterviewItem ==
    PyDict([SampleFields EXCEPT !.year_published = Absent,
                               !.category = Category(PyStr(s_MEDIAINTERVIEW), Label(s_Interview))])

ListItems ==
    YearItems \cup CategoryItems
        \cup {ProgrammeItem, NullJournalItem, NullContributorsItem, YearlessInterviewItem}

\* Report years: an int, the same year as a string, another year, and the
\* empty string.
ReportYears == {PyInt(2024), PyStr(s_2024), PyInt(2023), PyStr(s_empty)}

SeqsUpTo(S, n) == UNION {[1..m -> S] : m \in 0..n}

\* Records the endpoint serves during generate_report and fetch_publications:
\* an article, an interview and an article whose journal is null, all of
\* 2024 and with short texts.
ServedFields ==
    [ItemFields EXCEPT
        !.contributors = PyDict([preview |->
            PyList(<<PyDict([surname |-> PyStr(<<"D">>), first_name |-> PyStr(<<"J">>)])>>)]),
        !.year_published = PyInt(2024),
        !.title = PyMap(<<PyStr(<<"T">>)>>),
        !.journal = Journal(PyStr(<<"J">>), PyStr(<<"2">>)),
        !.volume = PyStr(<<"1">>),
        !.pages = PyDict([from |-> PyStr(<<"1">>), to |-> PyStr(<<"2">>)]),
        !.category = Category(PyStr(s_ARTICLE), Label(s_Journal_article))]

ServedItems ==
    {PyDict(ServedFields),
     PyDict([ServedFields EXCEPT
                !.category = Category(PyStr(s_MEDIAINTERVIEW), Label(s_Interview))]),
     PyDict([ServedFields EXCEPT !.journal = None])}

\* person_id arguments: a padded digit string, an int, the empty string, a
\* string with a letter, and a superscript two.
PersonIds ==
    {PyStr(s_id_padded), PyInt(7), PyStr(s_empty), PyStr(s_id_alnum), PyStr(<<"U+00B2">>)}

\* User-supplied manual fields: none, or one field.
UserManualFields ==
    {None, PyFields([key \in {s_formidling_kronikker} |-> PyStr(s_Kronikk)])}

PersonFields ==
    [first_name |-> Absent, surname |-> Absent, given_name |-> Absent,
     family_name |-> Absent, firstName |-> Absent, lastName |-> Absent,
     full_name |-> Absent, display_name |-> Absent, name |-> Absent,
     affiliations |-> Absent, employments |-> Absent]

Affiliation(name) ==
    PyDict([organization |-> PyDict([name |-> name, name_short |-> Absent, title |-> Absent]),
            institution |-> Absent])

\* Person payloads: an empty one, and one with a name and one affiliation.
Persons ==
    {PyDict(PersonFields),
     PyDict([PersonFields EXCEPT
        !.first_name = PyStr(s_Kari), !.surname = PyStr(s_Nordmann),
        !.affiliations = PyList(<<Affiliation(PyStr(s_Test_University))>>)])}

\* Templates: a file that cannot be opened as a template, and documents
\* with the placeholders they hold.
AllPlaceholders == Range(REQUIRED_PLACEHOLDERS)
Templates ==
    {[kind |-> "malformed", placeholders |-> {}]}
        \cup {[kind |-> "docx", placeholders |-> p] :
                p \in {AllPlaceholders,
                       AllPlaceholders \cup {s_unknown_key},
                       AllPlaceholders \ {s_person_name},
                       AllPlaceholders \ {s_publisert_annet, s_formidling_media},
                       {}}}

(***************************************************************************)
(* State.                                                                  *)
(***************************************************************************)
VARIABLES
    call,                  \* the entry point running: generate_report or fetch_publications
    pc,                    \* where the call is
    person_id,             \* argument person_id
    report_year,           \* argument report_year of generate_report
    max_pages,             \* argument max_pages of fetch_publications
    manual_fields,         \* argument manual_fields of generate_report
    page,                  \* fetch_publications: page
    results,               \* fetch_publications: results
    requested,             \* the page numbers of the requests sent, in order
    responses,             \* what each request met: "page", "empty" or an error
    entries,               \* generate_report: entries
    merged_manual_fields,  \* generate_report: merged_manual_fields
    person_fetch,          \* how fetch_person_details ended: "none", "ok", "failed"
    context,               \* generate_report: context
    output_path,           \* generate_report: output_path
    output_file,           \* the file at output_path: before the call and now
    template,              \* generate_report: the template render_report opened
    ret,                   \* what the call returned or raised
    fn,                    \* the function called on its own, "none" before the call
    args,                  \* its arguments
    out                    \* what it returned or raised

pipeline_vars ==
    <<call, pc, person_id, report_year, max_pages, manual_fields, page, results,
      requested, responses, entries, merged_manual_fields, person_fetch, context,
      output_path, output_file, template, ret>>
fn_vars == <<fn, args, out>>
vars == <<pipeline_vars, fn_vars>>

Running == [k |-> "running"]
NoContext == [key \in {} |-> None]
NoArgs == [none |-> None]
NoTemplate == [kind |-> "none", placeholders |-> {}]

\* The locals of a call before it assigns them.
Locals ==
    /\ page = 1
    /\ results = <<>>
    /\ requested = <<>>
    /\ responses = <<>>
    /\ entries = <<>>
    /\ merged_manual_fields = NoFields
    /\ person_fetch = "none"
    /\ context = NoContext
    /\ output_path = <<>>
    /\ template = NoTemplate
    /\ ret = Running

NoFunctionCall == fn = "none" /\ args = NoArgs /\ out = Running

\* generate_report(person_id, report_year, manual_fields=...): it calls
\* fetch_publications with the default max_pages.
InitGenerateReport ==
    /\ call = "generate_report"
    /\ pc = "start"
    /\ person_id \in PersonIds
    /\ report_year \in {PyInt(2024), PyStr(s_2023)}
    /\ max_pages = MAX_PAGES_DEFAULT
    /\ manual_fields \in UserManualFields
    /\ output_file \in {[before |-> b, now |-> b] : b \in {"absent", "old"}}
    /\ Locals

\* fetch_publications(person_id, max_pages=...)
InitFetchPublications ==
    /\ call = "fetch_publications"
    /\ pc = "start"
    /\ person_id \in PersonIds
    /\ report_year = None
    /\ max_pages \in (0..MaxPagesArg) \cup {MAX_PAGES_DEFAULT}
    /\ manual_fields = None
    /\ output_file = [before |-> "absent", now |-> "absent"]
    /\ Locals

Init == (InitGenerateReport \/ InitFetchPublications) /\ NoFunctionCall

(***************************************************************************)
(* fetch_publications.                                                     *)
(***************************************************************************)
\* return results: the caller of fetch_publications gets the list;
\* generate_report goes on to build the entries.
ReturnResults(list) ==
    IF call = "fetch_publications"
    THEN pc' = "done" /\ ret' = PyList(list)
    ELSE pc' = "fetched" /\ ret' = ret

\* person_id = str(person_id).strip(); ValueError unless it is all digits.
Validate ==
    /\ pc = "start"
    /\ IF isdigit(strip(str(person_id)))
       THEN pc' = "loop" /\ ret' = ret
       ELSE pc' = "done" /\ ret' = Raise("ValueError")
    /\ UNCHANGED <<call, person_id, report_year, max_pages, manual_fields, page, results,
                   requested, responses, entries, merged_manual_fields, person_fetch,
                   context, output_path, output_file, template, fn_vars>>

\* The loop guard off by one: one request more than max_pages.
LoopGuard_OffByOne == page <= max_pages + 1

\* while page <= max_pages
LoopGuard == page <= max_pages

\* The loop ends because page has passed max_pages.
LoopExit ==
    /\ pc = "loop"
    /\ ~LoopGuard
    /\ ReturnResults(results)
    /\ UNCHANGED <<call, person_id, report_year, max_pages, manual_fields, page, results,
                   requested, responses, entries, merged_manual_fields, person_fetch,
                   context, output_path, output_file, template, fn_vars>>

\* What a non-empty page can hold: any served record while the endpoint
\* chooses freely, afterwards its last record again.
PagePayloads ==
    IF Len(requested) < MaxDataPages \/ results = <<>>
    THEN {<<item>> : item \in ServedItems}
    ELSE {<<results[Len(results)]>>}

\* One iteration whose request returns a non-empty page.
RequestPage ==
    /\ pc = "loop"
    /\ LoopGuard
    /\ \E page_results \in PagePayloads :
          results' = results \o page_results
    /\ requested' = Append(requested, page)
    /\ responses' = Append(responses, "page")
    /\ page' = page + 1
    /\ UNCHANGED <<call, pc, person_id, report_year, max_pages, manual_fields, entries,
                   merged_manual_fields, person_fetch, context, output_path, output_file,
                   template, ret, fn_vars>>

\* One iteration whose request returns an empty page: break, return results.
RequestEmpty ==
    /\ pc = "loop"
    /\ LoopGuard
    /\ Len(requested) <= MaxDataPages
    /\ requested' = Append(requested, page)
    /\ responses' = Append(responses, "empty")
    /\ ReturnResults(results)
    /\ UNCHANGED <<call, person_id, report_year, max_pages, manual_fields, page, results,
                   entries, merged_manual_fields, person_fetch, context, output_path,
                   output_file, template, fn_vars>>

\* The errors of a request: client.get raises (transport) or
\* raise_for_status raises (a response that is not 2xx).
RequestErrors == {"ConnectionError", "HTTPError"}

\* A failed request handled like an empty page: the loop breaks and the
\* records collected so far are returned.
RequestFails_Swallowed ==
    /\ pc = "loop"
    /\ LoopGuard
    /\ \E error \in RequestErrors : responses' = Append(responses, error)
    /\ requested' = Append(requested, page)
    /\ ReturnResults(results)
    /\ UNCHANGED <<call, person_id, report_year, max_pages, manual_fields, page, results,
                   entries, merged_manual_fields, person_fetch, context, output_path,
                   output_file, template, fn_vars>>

\* One iteration whose request fails: the exception leaves fetch_publications
\* and, uncaught, generate_report.
RequestFails ==
    /\ pc = "loop"
    /\ LoopGuard
    /\ \E error \in RequestErrors :
          /\ responses' = Append(responses, error)
          /\ ret' = Raise(error)
    /\ requested' = Append(requested, page)
    /\ pc' = "done"
    /\ UNCHANGED <<call, person_id, report_year, max_pages, manual_fields, page, results,
                   entries, merged_manual_fields, person_fetch, context, output_path,
                   output_file, template, fn_vars>>

(***************************************************************************)
(* generate_report after the fetch.                                        *)
(***************************************************************************)
\* entries, auto_manual_fields, merged_manual_fields; an exception of
\* build_entries or build_auto_manual_fields ends the call.
BuildEntries ==
    /\ pc = "fetched"
    /\ \E built \in {build_entries(results, report_year)},
          auto_manual_fields \in {build_auto_manual_fields(results, report_year)} :
          IF IsRaise(built)
          THEN pc' = "done" /\ ret' = built /\ UNCHANGED <<entries, merged_manual_fields>>
          ELSE IF IsRaise(auto_manual_fields)
          THEN /\ pc' = "done"
               /\ ret' = auto_manual_fields
               /\ UNCHANGED <<entries, merged_manual_fields>>
          ELSE /\ pc' = "person"
               /\ entries' = built.l
               /\ merged_manual_fields' =
                      merge_manual_fields(auto_manual_fields, manual_fields)
               /\ ret' = ret
    /\ UNCHANGED <<call, person_id, report_year, max_pages, manual_fields, page, results,
                   requested, responses, person_fetch, context, output_path, output_file,
                   template, fn_vars>>

\* context and output_path, from the names the person fetch left.
ContextAndPath(person_name, institution_name, institution_name_secondary) ==
    /\ context' = build_template_context(entries, report_year, person_name,
                      institution_name, institution_name_secondary, merged_manual_fields)
    /\ output_path' = s_reports_dir
                        \o build_output_filename(person_name, person_id, report_year)

\* fetch_person_details returns a payload: the names come from it.
FetchPersonOk ==
    /\ pc = "person"
    /\ \E person \in Persons :
          ContextAndPath(extract_person_name(person),
                         extract_affiliation_names(person)[1],
                         extract_affiliation_names(person)[2])
    /\ person_fetch' = "ok"
    /\ pc' = "render"
    /\ UNCHANGED <<call, person_id, report_year, max_pages, manual_fields, page, results,
                   requested, responses, entries, merged_manual_fields, output_file,
                   template, ret, fn_vars>>

\* The names generate_report keeps when fetch_person_details raises a
\* requests.RequestException.
PersonFallback == <<s_Ukjent_navn, s_empty, s_empty>>

\* The exception of fetch_person_details left uncaught: it ends the call.
FetchPersonFails_Uncaught ==
    /\ pc = "person"
    /\ person_fetch' = "failed"
    /\ pc' = "done"
    /\ \E error \in RequestErrors : ret' = Raise(error)
    /\ UNCHANGED <<call, person_id, report_year, max_pages, manual_fields, page, results,
                   requested, responses, entries, merged_manual_fields, context,
                   output_path, output_file, template, fn_vars>>

\* fetch_person_details raises a RequestException: caught, the defaults stay.
FetchPersonFails ==
    /\ pc = "person"
    /\ ContextAndPath(PersonFallback[1], PersonFallback[2], PersonFallback[3])
    /\ person_fetch' = "failed"
    /\ pc' = "render"
    /\ UNCHANGED <<call, person_id, report_year, max_pages, manual_fields, page, results,
                   requested, responses, entries, merged_manual_fields, output_file,
                   template, ret, fn_vars>>

\* template_path is None and resolve_template_path finds no template.
TemplateNotFound ==
    /\ pc = "render"
    /\ pc' = "done"
    /\ ret' = Raise("FileNotFoundError")
    /\ UNCHANGED <<call, person_id, report_year, max_pages, manual_fields, page, results,
                   requested, responses, entries, merged_manual_fields, person_fetch,
                   context, output_path, output_file, template, fn_vars>>

\* doc.render(context) on a template: it raises on a file that is no
\* template; otherwise it fills the placeholders the template holds, and a
\* key of the context without a placeholder is ignored.
RenderRaises(opened) == opened.kind = "malformed"

\* How doc.save(output_path) can end: the document written, an error
\* before the file is created, or an error after it was created and partly
\* written.
SaveOutcomes == {"written", "error_before_create", "error_while_writing"}

\* render_report(context, template, output_path)
RenderReport ==
    /\ pc = "render"
    /\ \E opened \in Templates, save \in SaveOutcomes :
          /\ template' = opened
          /\ IF RenderRaises(opened)
                THEN ret' = Raise("TemplateError") /\ output_file' = output_file
             ELSE IF save = "written"
             THEN /\ ret' = PyStr(output_path)
                  /\ output_file' = [output_file EXCEPT !.now = "written"]
             ELSE IF save = "error_while_writing"
             THEN /\ ret' = Raise("OSError")
                  /\ output_file' = [output_file EXCEPT !.now = "partial"]
             ELSE ret' = Raise("OSError") /\ output_file' = output_file
    /\ pc' = "done"
    /\ UNCHANGED <<call, person_id, report_year, max_pages, manual_fields, page, results,
                   requested, responses, entries, merged_manual_fields, person_fetch,
                   context, output_path, fn_vars>>

Next ==
    \/ Validate
    \/ LoopExit
    \/ RequestPage
    \/ RequestEmpty
    \/ RequestFails
    \/ BuildEntries
    \/ FetchPersonOk
    \/ FetchPersonFails
    \/ TemplateNotFound
    \/ RenderReport

Spec == Init /\ [][Next]_vars


(***************************************************************************)
(* The functions called on their own.                                      *)
(***************************************************************************)
\* No call of generate_report or fetch_publications is running.
NoPipeline ==
    /\ call = "none"
    /\ pc = "done"
    /\ person_id = None
    /\ report_year = None
    /\ max_pages = MAX_PAGES_DEFAULT
    /\ manual_fields = None
    /\ output_file = [before |-> "absent", now |-> "absent"]
    /\ Locals

\* A record, before classify_publication or extract_level is called on it.
ItemInit ==
    /\ NoPipeline
    /\ fn = "none"
    /\ args \in {[item |-> item] : item \in Items}
    /\ out = Running

\* classify_publication(item)
CallClassifyPublication ==
    /\ fn = "none"
    /\ fn' = "classify_publication"
    /\ out' = classify_publication(args.item)
    /\ UNCHANGED <<pipeline_vars, args>>

\* extract_level(item)
CallExtractLevel ==
    /\ fn = "none"
    /\ fn' = "extract_level"
    /\ out' = extract_level(args.item)
    /\ UNCHANGED <<pipeline_vars, args>>

ItemNext == CallClassifyPublication \/ CallExtractLevel

ItemSpec == ItemInit /\ [][ItemNext]_vars

\* A list of records and a report year, before build_entries or
\* build_auto_manual_fields is called on them.
ListInit ==
    /\ NoPipeline
    /\ fn = "none"
    /\ args \in {[items |-> items, report_year |-> year] :
                    items \in SeqsUpTo(ListItems, MaxItems), year \in ReportYears}
    /\ out = Running

\* build_entries(items, report_year)
CallBuildEntries ==
    /\ fn = "none"
    /\ fn' = "build_entries"
    /\ out' = build_entries(args.items, args.report_year)
    /\ UNCHANGED <<pipeline_vars, args>>

\* build_auto_manual_fields(items, report_year)
CallBuildAutoManualFields ==
    /\ fn = "none"
    /\ fn' = "build_auto_manual_fields"
    /\ out' = build_auto_manual_fields(args.items, args.report_year)
    /\ UNCHANGED <<pipeline_vars, args>>

ListNext == CallBuildEntries \/ CallBuildAutoManualFields

ListSpec == ListInit /\ [][ListNext]_vars

\* fetch_publications called on its own, as one thread: a step that can be
\* taken is taken, and every request ends, at the latest when its timeout
\* of REQUEST_TIMEOUT_SECONDS runs out.
FetchInit == InitFetchPublications /\ NoFunctionCall

FetchNext ==
    \/ Validate
    \/ LoopExit
    \/ RequestPage
    \/ RequestEmpty
    \/ RequestFails

FetchSpec == FetchInit /\ [][FetchNext]_vars /\ WF_vars(FetchNext)

(***************************************************************************)
(* merge_manual_fields called on its own.                                  *)
(***************************************************************************)
\* Texts of a field: empty, blank, plain, and padded with whitespace.
AutoTexts == {s_empty, <<" ">>, <<"A">>, <<" ", "A", "\n">>}
UserTexts == {s_empty, <<"\n">>, <<"U">>, <<"U", " ">>}

\* auto_fields: an empty mapping, or two of the declared keys.
AutoFieldSets ==
    {NoFields}
        \cup {PyFields([key \in {s_formidling_media, s_formidling_faglig} |->
                            IF key = s_formidling_media THEN PyStr(media) ELSE PyStr(faglig)]) :
                media \in AutoTexts, faglig \in AutoTexts}

\* manual_fields: None, an empty mapping, or a declared and an undeclared key.
UserFieldSets ==
    {None, NoFields}
        \cup {PyFields([key \in {s_formidling_media, s_unknown_key} |->
                            IF key = s_formidling_media THEN PyStr(media) ELSE PyStr(other)]) :
                media \in UserTexts, other \in UserTexts}

MergeInit ==
    /\ NoPipeline
    /\ fn = "none"
    /\ args \in {[auto_fields |-> auto, manual_fields |-> user] :
                    auto \in AutoFieldSets, user \in UserFieldSets}
    /\ out = Running

\* merge_manual_fields(auto_fields, manual_fields)
CallMergeManualFields ==
    /\ fn = "none"
    /\ fn' = "merge_manual_fields"
    /\ out' = merge_manual_fields(args.auto_fields, args.manual_fields)
    /\ UNCHANGED <<pipeline_vars, args>>

MergeNext == CallMergeManualFields

MergeSpec == MergeInit /\ [][MergeNext]_vars

(***************************************************************************)
(* group_references and build_template_context called on their own.        *)
(***************************************************************************)
\* Entries: three in one bucket whose references differ in case and in
\* length, one in another bucket, and one with a key outside CATEGORY_KEYS.
SampleEntries ==
    {PublicationEntry(<<"b">>, s_publisert_annet, s_2024),
     PublicationEntry(<<"B">>, s_publisert_annet, s_2024),
     PublicationEntry(<<"B", "a">>, s_publisert_annet, s_2024),
     PublicationEntry(<<"B">>, s_publisert_book_review, s_2024),
     PublicationEntry(<<"x">>, s_publisert_artikkel_niva \o s_True, s_2024)}

\* manual_fields of build_template_context: absent, empty, and partial
\* with an undeclared key.
ContextManualFields ==
    {None, NoFields,
     PyFields([key \in {s_formidling_media, s_unknown_key} |->
                  IF key = s_formidling_media THEN PyStr(<<"U", " ">>) ELSE PyStr(<<"U">>)])}

GroupInit ==
    /\ NoPipeline
    /\ fn = "none"
    /\ args \in {[entries |-> list, manual_fields |-> fields] :
                    list \in SeqsUpTo(SampleEntries, MaxEntries),
                    fields \in ContextManualFields}
    /\ out = Running

\* group_references(entries)
CallGroupReferences ==
    /\ fn = "none"
    /\ fn' = "group_references"
    /\ out' = [k |-> "grouped", g |-> group_references(args.entries)]
    /\ UNCHANGED <<pipeline_vars, args>>

\* build_template_context(entries, 2024, "Kari Nordmann", "Test University",
\* "", manual_fields)
CallBuildTemplateContext ==
    /\ fn = "none"
    /\ fn' = "build_template_context"
    /\ out' = [k |-> "context",
               c |-> build_template_context(args.entries, PyInt(2024),
                         s_Kari \o <<" ">> \o s_Nordmann, s_Test_University, s_empty,
                         args.manual_fields)]
    /\ UNCHANGED <<pipeline_vars, args>>

GroupNext == CallGroupReferences \/ CallBuildTemplateContext

GroupSpec == GroupInit /\ [][GroupNext]_vars

(***************************************************************************)
(* format_reference called on its own.                                     *)
(***************************************************************************)
Event(name) == PyDict([name |-> name, location |-> Absent])

\* sample_record with each optional field absent, null or present, one
\* independently of the other; pages also with a null and an absent bound.
RefItems ==
    {PyDict([SampleFields EXCEPT
                !.contributors = contributors, !.year_published = year_published,
                !.title = title, !.journal = journal, !.event = event,
                !.channel = channel, !.volume = volume, !.pages = pages,
                !.links = links]) :
        contributors \in {Absent, None, SampleFields.contributors},
        year_published \in {Absent, None, SampleFields.year_published},
        title \in {Absent, None, SampleFields.title},
        journal \in {Absent, None, SampleFields.journal},
        event \in {Absent, None, Event(PyStr(s_Test_University))},
        channel \in {Absent, None, Channel(PyStr(s_NRK), Absent)},
        volume \in {Absent, None, SampleFields.volume},
        pages \in {Absent, None, SampleFields.pages,
                   PyDict([from |-> None, to |-> Absent])},
        links \in {Absent, None, SampleFields.links}}

RefInit ==
    /\ NoPipeline
    /\ fn = "none"
    /\ args \in {[item |-> item] : item \in RefItems}
    /\ out = Running

\* format_reference(item)
CallFormatReference ==
    /\ fn = "none"
    /\ fn' = "format_reference"
    /\ out' = format_reference(args.item)
    /\ UNCHANGED <<pipeline_vars, args>>

RefNext == CallFormatReference

RefSpec == RefInit /\ [][RefNext]_vars

(***************************************************************************)
(* sanitize_filename and build_output_filename called on their own.        *)
(***************************************************************************)
\* The characters of the names tried: a letter, the letter of the second
\* pattern, the characters rstrip removes, and three reserved characters.
NameChars == {"a", "s", ".", " ", "/", "\\", ":"}

\* person_id and report_year arguments: an int, a padded string, and
\* strings of which nothing is left once they are sanitized.
FilenameIds == {PyInt(7), PyStr(s_id_padded), PyStr(<<".", ".", "/">>)}
FilenameYears == {PyInt(2024), PyStr(<<"/", " ">>)}

NameInit ==
    /\ NoPipeline
    /\ fn = "none"
    /\ args \in {[person_name |-> name, person_id |-> id, report_year |-> year] :
                    name \in SeqsUpTo(NameChars, MaxNameLen),
                    id \in FilenameIds, year \in FilenameYears}
    /\ out = Running

\* sanitize_filename(person_name, "report")
CallSanitizeFilename ==
    /\ fn = "none"
    /\ fn' = "sanitize_filename"
    /\ out' = PyStr(sanitize_filename(args.person_name, s_report))
    /\ UNCHANGED <<pipeline_vars, args>>

\* build_output_filename(person_name, person_id, report_year)
CallBuildOutputFilename ==
    /\ fn = "none"
    /\ fn' = "build_output_filename"
    /\ out' = PyStr(build_output_filename(args.person_name, args.person_id,
                                          args.report_year))
    /\ UNCHANGED <<pipeline_vars, args>>

NameNext == CallSanitizeFilename \/ CallBuildOutputFilename

NameSpec == NameInit /\ [][NameNext]_vars

(***************************************************************************)
(* The three entry points that validate person_id.                         *)
(***************************************************************************)
\* fetch_person_details(person_id) called on its own.
InitFetchPersonDetails ==
    /\ call = "fetch_person_details"
    /\ pc = "person_start"
    /\ person_id \in PersonIds
    /\ report_year = None
    /\ max_pages = MAX_PAGES_DEFAULT
    /\ manual_fields = None
    /\ output_file = [before |-> "absent", now |-> "absent"]
    /\ Locals

\* person_id = str(person_id).strip(); ValueError unless it is all digits.
ValidatePersonDetails ==
    /\ pc = "person_start"
    /\ IF isdigit(strip(str(person_id)))
       THEN pc' = "person_request" /\ ret' = ret
       ELSE pc' = "done" /\ ret' = Raise("ValueError")
    /\ UNCHANGED <<call, person_id, report_year, max_pages, manual_fields, page, results,
                   requested, responses, entries, merged_manual_fields, person_fetch,
                   context, output_path, output_file, template, fn_vars>>

\* client.get returns and the payload is handed back.
PersonDetailsReturned ==
    /\ pc = "person_request"
    /\ \E person \in Persons : ret' = person
    /\ person_fetch' = "ok"
    /\ pc' = "done"
    /\ UNCHANGED <<call, person_id, report_year, max_pages, manual_fields, page, results,
                   requested, responses, entries, merged_manual_fields, context,
                   output_path, output_file, template, fn_vars>>

\* client.get or raise_for_status raises.
PersonDetailsFails ==
    /\ pc = "person_request"
    /\ \E error \in RequestErrors : ret' = Raise(error)
    /\ person_fetch' = "failed"
    /\ pc' = "done"
    /\ UNCHANGED <<call, person_id, report_year, max_pages, manual_fields, page, results,
                   requested, responses, entries, merged_manual_fields, context,
                   output_path, output_file, template, fn_vars>>

EntryInit ==
    (InitGenerateReport \/ InitFetchPublications \/ InitFetchPersonDetails) /\ NoFunctionCall

EntryNext ==
    \/ Next
    \/ ValidatePersonDetails
    \/ PersonDetailsReturned
    \/ PersonDetailsFails

EntrySpec == EntryInit /\ [][EntryNext]_vars

(***************************************************************************)
(* extract_affiliation_names called on its own.                            *)
(***************************************************************************)
\* Affiliations: with a plain name, a padded one, a multilingual name with
\* two texts, a multilingual name whose first text is empty, a blank name
\* and no name.
SampleAffiliations ==
    {Affiliation(PyStr(s_Test_University)),
     Affiliation(PyStr(<<" ">> \o s_Universitetet_i_Oslo \o <<" ">>)),
     Affiliation(PyMap(<<PyStr(s_Universitetet_i_Oslo), PyStr(s_University_of_Oslo)>>)),
     Affiliation(PyMap(<<PyStr(s_empty), PyStr(s_Test_University)>>)),
     Affiliation(PyStr(<<" ">>)),
     Affiliation(None)}

\* Person payloads with the list under affiliations or under employments.
AffiliatedPersons ==
    {PyDict([PersonFields EXCEPT !.affiliations = PyList(list)]) :
        list \in SeqsUpTo(SampleAffiliations, MaxAffiliations)}
    \cup {PyDict([PersonFields EXCEPT !.employments = PyList(list)]) :
            list \in SeqsUpTo(SampleAffiliations, MaxAffiliations)}

AffiliationInit ==
    /\ NoPipeline
    /\ fn = "none"
    /\ args \in {[person |-> person] : person \in AffiliatedPersons}
    /\ out = Running

\* extract_affiliation_names(person)
CallExtractAffiliationNames ==
    /\ fn = "none"
    /\ fn' = "extract_affiliation_names"
    /\ out' = [k |-> "tuple", t |-> extract_affiliation_names(args.person)]
    /\ UNCHANGED <<pipeline_vars, args>>

\* extract_person_name(person)
CallExtractPersonName ==
    /\ fn = "none"
    /\ fn' = "extract_person_name"
    /\ out' = PyStr(extract_person_name(args.person))
    /\ UNCHANGED <<pipeline_vars, args>>

AffiliationNext == CallExtractAffiliationNames \/ CallExtractPersonName

AffiliationSpec == AffiliationInit /\ [][AffiliationNext]_vars

(***************************************************************************)
(* Properties.                                                             *)
(***************************************************************************)
\* C1: fetch_publications terminates against every endpoint, also one that
\* never sends an empty page: it requests pages 1, 2, 3, ... in order, one
\* per iteration, requests nothing after the first empty page, issues at
\* most max_pages requests (25 by default), and the fetch comes to an end.
C1_PaginationTerminates ==
    /\ [](/\ \A i \in 1..Len(requested) : requested[i] = i
          /\ Len(requested) <= max_pages
          /\ \A i \in 1..Len(responses) :
                responses[i] = "empty" => (i = Len(responses) /\ pc # "loop"))
    /\ <>(pc \notin {"start", "loop"})

\* The endpoint never sent an empty page and fetch_publications returned
\* after MAX_PAGES_DEFAULT requests.
C1_Witness ==
    /\ call = "fetch_publications"
    /\ pc = "done"
    /\ ret.k = "list"
    /\ Len(requested) = MAX_PAGES_DEFAULT
    /\ \A i \in 1..Len(responses) : responses[i] = "page"

\* C2: when the request for a page k fails, the fetch ends with that error:
\* page k is requested once, no page after k is requested, and the records
\* of the pages before k are not returned.
C2_FailedPageAbortsFetch ==
    \A k \in 1..Len(responses) :
        responses[k] \in RequestErrors =>
            /\ k = Len(responses)
            /\ \A j \in 1..(k - 1) : requested[j] # requested[k]
            /\ pc = "done"
            /\ ret = Raise(responses[k])

\* A request failed on a page after the first, with records already collected.
C2_Witness ==
    /\ pc = "done"
    /\ Len(responses) >= 2
    /\ responses[Len(responses)] \in RequestErrors
    /\ results # <<>>
    /\ ret.k = "raise"

\* C3: when the publications were fetched and fetch_person_details fails,
\* generate_report goes on to render: person_name is "Ukjent navn", both
\* institution names are empty, and every bucket and manual field of the
\* context is what it is when the person fetch succeeds.
C3_PersonFetchFailureIsNotFatal ==
    person_fetch = "failed" =>
        /\ pc \in {"render", "done"}
        /\ pc = "render" => ret = Running
        /\ ret \notin {Raise(error) : error \in RequestErrors}
        /\ DOMAIN context = AllPlaceholders
        /\ context[s_person_name] = PyStr(s_Ukjent_navn)
        /\ context[s_institution_name] = PyStr(s_empty)
        /\ context[s_institution_name_secondary] = PyStr(s_empty)
        /\ \A person \in Persons :
              \A with_person \in {build_template_context(entries, report_year,
                                      extract_person_name(person),
                                      extract_affiliation_names(person)[1],
                                      extract_affiliation_names(person)[2],
                                      merged_manual_fields)} :
                 \A key \in Range(CATEGORY_KEYS) \cup Range(MANUAL_FIELD_KEYS) :
                    context[key] = with_person[key]

\* The person fetch failed and the report, with entries, was written.
C3_Witness ==
    /\ person_fetch = "failed"
    /\ pc = "done"
    /\ ret = PyStr(output_path)
    /\ output_file.now = "written"
    /\ entries # <<>>

\* C4: when the template lacks a required placeholder, generate_report
\* fails with a template error and produces no output document.
C4_MissingPlaceholdersFail ==
    (/\ call = "generate_report"
     /\ pc = "done"
     /\ template.kind = "docx"
     /\ ~(AllPlaceholders \subseteq template.placeholders))
        => (ret = Raise("TemplateError") /\ output_file.now = output_file.before)

\* C5: a generate_report that ends in failure leaves no file at the output
\* path that was not there before the call.
C5_NoPartialOutputOnFailure ==
    (call = "generate_report" /\ pc = "done" /\ ret.k = "raise" /\ output_file.before = "absent")
        => output_file.now = "absent"

\* A record lacks a year: neither year_published nor year is present, or
\* the value is empty.
LacksYear(item) ==
    \A key \in {"year_published", "year"} : Get(item, key) \in {None, PyStr(s_empty)}

\* C6: whatever the report year, build_entries makes no entry of a record
\* that lacks a year: it returns at most as many entries as there are
\* records with a year.
C6_YearlessRecordsExcluded ==
    (fn = "build_entries" /\ out.k = "list") =>
        Len(out.l) <= Cardinality({i \in 1..Len(args.items) : ~LacksYear(args.items[i])})

\* The entries the claim C7 describes: one for each record of the target
\* year whose classification is not None, in input order.
ExpectedEntries(items, year) ==
    LET kept == SelectSeq(items, LAMBDA item :
                    extract_year(item) = str(year) /\ classify_publication(item) # None) IN
    [i \in 1..Len(kept) |->
        PublicationEntry(format_reference(kept[i]).s, classify_publication(kept[i]).s,
                         str(year))]

\* C7: build_entries(records, year) returns, in input order, exactly one
\* entry for each record whose year string equals str(year) and whose
\* classification is not Excluded, with that year, classification and
\* formatted reference.
C7_BuildEntriesExact ==
    fn = "build_entries" =>
        /\ out.k = "list"
        /\ Len(out.l) = Len(ExpectedEntries(args.items, args.report_year))
        /\ \A i \in 1..Len(out.l) :
              out.l[i] = ExpectedEntries(args.items, args.report_year)[i]

ArticleBuckets ==
    {PyStr(s_publisert_artikkel_niva \o <<"1">>), PyStr(s_publisert_artikkel_niva \o <<"2">>)}
MonographBuckets ==
    {PyStr(s_publisert_monografi_niva \o <<"1">>), PyStr(s_publisert_monografi_niva \o <<"2">>)}

\* C8: the code rules of classify_publication override the label rules:
\* whatever the label and the level, code ARTICLE gives an article bucket,
\* code TEXTBOOK a monograph bucket, and a non-publication code gives None.
C8_CodeRulesOverrideLabelRules ==
    fn = "classify_publication" =>
        \A code \in {Get(Get(args.item, "category"), "code")} :
            /\ code = PyStr(s_ARTICLE) => out \in ArticleBuckets
            /\ code = PyStr(s_TEXTBOOK) => out \in MonographBuckets
            /\ IsNonPublicationCode(code) => out = None

\* C9: classify_publication is total with a fixed range: on every record it
\* returns, and what it returns is None or one of the keys of CATEGORY_KEYS.
C9_ClassifierTotalFixedRange ==
    fn = "classify_publication" =>
        \/ out = None
        \/ (out.k = "str" /\ out.s \in Range(CATEGORY_KEYS))

\* The entries of a manual field: the texts a blank line separates.
RECURSIVE EntryCount(_)
EntryCount(text) ==
    IF text = <<>> THEN 0
    ELSE IF Len(text) >= 2 /\ text[1] = "\n" /\ text[2] = "\n"
    THEN 1 + EntryCount(SubSeq(text, 3, Len(text)))
    ELSE IF Len(text) = 1 THEN 1
    ELSE EntryCount(Tail(text))

\* The category code of a record, as the record holds it.
CodeOf(item) == Get(Get(item, "category"), "code")

\* A record of the target year with a non-publication code.
IsDissemination(item, year) ==
    extract_year(item) = str(year) /\ IsNonPublicationCode(CodeOf(item))

\* C10: a record of the target year with a non-publication code yields no
\* entry from build_entries and exactly one entry in exactly one manual
\* field of build_auto_manual_fields, the field its code maps to.  Stated
\* for the lists made of such records only: build_entries returns nothing,
\* and each manual field holds as many entries as records map to it.
C10_DisseminationFiledOnce ==
    (\A i \in 1..Len(args.items) : IsDissemination(args.items[i], args.report_year)) =>
        /\ fn = "build_entries" => out = PyList(<<>>)
        /\ fn = "build_auto_manual_fields" =>
              /\ out.k = "fields"
              /\ \A key \in Range(MANUAL_FIELD_KEYS) :
                    EntryCount(out.f[key].s) =
                        Cardinality({i \in 1..Len(args.items) :
                            FORMIDLING_CATEGORY_MAP[CodeOf(args.items[i]).s] = key})

\* The text merge_manual_fields reads for a key: fields.get(key, ""), with
\* None read as an empty mapping.
RawText(fields, key) == str(FieldGet(Or(fields, NoFields), key))

\* C11: for every declared manual-field key, with both texts trimmed of
\* surrounding whitespace first and "non-empty" meaning non-empty after the
\* trim: only the automatic text non-empty gives the trimmed automatic text;
\* only the user text non-empty gives the trimmed user text; both non-empty
\* give the automatic text, a blank line, the user text; neither gives the
\* empty string. The result holds exactly the declared keys.
C11_MergeOfTrimmedTexts ==
    fn = "merge_manual_fields" =>
        /\ out.k = "fields"
        /\ DOMAIN out.f = Range(MANUAL_FIELD_KEYS)
        /\ \A key \in Range(MANUAL_FIELD_KEYS) :
              LET auto == strip(RawText(args.auto_fields, key))
                  user == strip(RawText(args.manual_fields, key)) IN
              /\ (auto # <<>> /\ user = <<>>) => out.f[key] = PyStr(auto)
              /\ (auto = <<>> /\ user # <<>>) => out.f[key] = PyStr(user)
              /\ (auto # <<>> /\ user # <<>>) =>
                    out.f[key] = PyStr(auto \o <<"\n", "\n">> \o user)
              /\ (auto = <<>> /\ user = <<>>) => out.f[key] = PyStr(s_empty)

\* Both texts of a key are non-empty, the user text padded, and the merged
\* text is the automatic text, a blank line and the trimmed user text.
C11_Witness ==
    /\ fn = "merge_manual_fields"
    /\ RawText(args.auto_fields, s_formidling_media) = <<"A">>
    /\ RawText(args.manual_fields, s_formidling_media) = <<"U", " ">>
    /\ out.f[s_formidling_media] = PyStr(<<"A", "\n", "\n", "U">>)

\* C11 as the specification words it: the texts are taken as given, and a
\* text is non-empty when it has a character; the result is the text
\* unchanged.
C11_MergeOfTextsUnchanged ==
    fn = "merge_manual_fields" =>
        /\ out.k = "fields"
        /\ \A key \in Range(MANUAL_FIELD_KEYS) :
              LET auto == RawText(args.auto_fields, key)
                  user == RawText(args.manual_fields, key) IN
              /\ (auto # <<>> /\ user = <<>>) => out.f[key] = PyStr(auto)
              /\ (auto = <<>> /\ user # <<>>) => out.f[key] = PyStr(user)
              /\ (auto # <<>> /\ user # <<>>) =>
                    out.f[key] = PyStr(auto \o <<"\n", "\n">> \o user)
              /\ (auto = <<>> /\ user = <<>>) => out.f[key] = PyStr(s_empty)

\* How often ref occurs in the list refs.
Occurrences(refs, ref) == Cardinality({i \in 1..Len(refs) : refs[i] = ref})

\* How many entries of the list carry the key and the reference.
EntriesWith(list, key, ref) ==
    Cardinality({i \in 1..Len(list) : list[i].category_key = key /\ list[i].reference = ref})

\* C12: the mapping group_references returns holds every key of
\* CATEGORY_KEYS, with an empty list when no entry carries it; each list is
\* in ascending lexicographic order of the reference strings; and the
\* references under a key are those of the entries carrying the key, each
\* as often as it occurs among them.
C12_GroupedSortedComplete ==
    fn = "group_references" =>
        /\ Range(CATEGORY_KEYS) \subseteq DOMAIN out.g
        /\ \A key \in DOMAIN out.g :
              /\ \A i \in 1..Len(out.g[key]) : \A j \in (i + 1)..Len(out.g[key]) :
                    ~StrLess(out.g[key][j], out.g[key][i])
              /\ \A ref \in Range(out.g[key]) \cup
                            {args.entries[i].reference : i \in 1..Len(args.entries)} :
                    Occurrences(out.g[key], ref) = EntriesWith(args.entries, key, ref)
              /\ Len(out.g[key]) =
                    Cardinality({i \in 1..Len(args.entries) :
                                    args.entries[i].category_key = key})

\* Three entries of one bucket given in descending order, one of them
\* twice: the bucket holds them ascending with the duplicate kept, and the
\* other buckets are empty.
C12_Witness ==
    /\ fn = "group_references"
    /\ args.entries = <<PublicationEntry(<<"b">>, s_publisert_annet, s_2024),
                        PublicationEntry(<<"B">>, s_publisert_annet, s_2024),
                        PublicationEntry(<<"B">>, s_publisert_annet, s_2024)>>
    /\ out.g[s_publisert_annet] = << <<"B">>, <<"B">>, <<"b">> >>
    /\ out.g[s_publisert_book_review] = <<>>

\* C13: whatever the entries and the manual_fields argument, the keys of
\* the context are exactly REQUIRED_PLACEHOLDERS: the four header fields,
\* every key of CATEGORY_KEYS and every key of MANUAL_FIELD_KEYS; a bucket
\* no entry carries and a manual field not supplied are the empty string.
C13_ContextKeysFixed ==
    fn = "build_template_context" =>
        /\ DOMAIN out.c = Range(REQUIRED_PLACEHOLDERS)
        /\ DOMAIN out.c =
              {s_report_year, s_person_name, s_institution_name,
               s_institution_name_secondary}
                  \cup Range(CATEGORY_KEYS) \cup Range(MANUAL_FIELD_KEYS)
        /\ \A key \in Range(CATEGORY_KEYS) :
              (\A i \in 1..Len(args.entries) : args.entries[i].category_key # key)
                  => out.c[key] = PyStr(s_empty)
        /\ \A key \in Range(MANUAL_FIELD_KEYS) :
              (args.manual_fields = None \/ key \notin DOMAIN args.manual_fields.f)
                  => out.c[key] = PyStr(s_empty)

\* The entries hold a key outside CATEGORY_KEYS and manual_fields holds an
\* undeclared key and one declared key: the context has the declared field
\* and neither of the undeclared keys.
C13_Witness ==
    /\ fn = "build_template_context"
    /\ \E i \in 1..Len(args.entries) :
          args.entries[i].category_key \notin Range(CATEGORY_KEYS)
    /\ args.manual_fields # None
    /\ s_unknown_key \in DOMAIN args.manual_fields.f
    /\ s_unknown_key \notin DOMAIN out.c
    /\ out.c[s_formidling_media] = PyStr(<<"U">>)
    /\ out.c[s_publisert_book_review] = PyStr(s_empty)

\* A field of a record holds a value: it is neither absent nor null.
Present(value) == value.k \notin {"absent", "none"}

\* The field of a record, or of a container of the record when the
\* container is present; the fallback otherwise.
FieldOr(value, fallback) == IF Present(value) THEN str(value) ELSE fallback
NestedOr(container, key, fallback) ==
    IF Present(container) /\ Present(container.d[key]) THEN str(container.d[key])
    ELSE fallback

\* The reference C14 describes for a record of RefItems.
ExpectedReference(item) ==
    LET f == item.d
        authors == IF Present(f.contributors) THEN s_Doe \o <<",", " ">> \o s_Jane
                   ELSE s_Unknown_author
        title == IF Present(f.title) THEN f.title.m[1].s ELSE s_No_title_available
        venue == NestedOr(f.journal, "name",
                    NestedOr(f.event, "name",
                       NestedOr(f.channel, "title", s_No_publication_information_available)))
        doi == IF Present(f.links) THEN <<" ">> \o f.links.l[1].d.url.s \o <<".">> ELSE <<>>
    IN
    authors \o <<" ", "(">> \o FieldOr(f.year_published, s_nd) \o <<")", ".", " ">>
        \o title \o <<".", " ">> \o venue \o s_Volume \o FieldOr(f.volume, s_NA)
        \o s_pp \o NestedOr(f.pages, "from", s_NA) \o <<"-">>
        \o NestedOr(f.pages, "to", s_NA) \o <<".">> \o doi

\* C14: format_reference never raises: for a record whose optional fields
\* are each absent, null or present, it returns
\* "{authors} ({year}). {title}. {venue}, Volume {volume}, pp. {from}-{to}."
\* (followed by the DOI when the links hold one) with every present field
\* verbatim and every missing one replaced by its fallback.
C14_FormatReferenceTotal ==
    fn = "format_reference" =>
        /\ out.k = "str"
        /\ out.s = ExpectedReference(args.item)

\* The characters a file name segment must not hold.
ReservedChars == {"<", ">", ":", "\"", "/", "\\", "|", "?", "*"}

\* A segment is not empty and holds no reserved character.
SafeSegment(s) == s # <<>> /\ \A i \in 1..Len(s) : s[i] \notin ReservedChars

\* C15: sanitize_filename given a non-empty fallback returns a string that
\* is not empty and holds no path separator and no reserved character; the
\* two segments build_output_filename inserts, the year and the name, are
\* such strings for every person_name, person_id and report_year, and the
\* file name built around them holds no path separator.
C15_FilenameSegmentsSafe ==
    /\ fn = "sanitize_filename" => SafeSegment(out.s)
    /\ fn = "build_output_filename" =>
          LET safe_name == sanitize_filename(args.person_name,
                               sanitize_filename(str(args.person_id), s_report))
              safe_year == sanitize_filename(str(args.report_year), s_year) IN
          /\ SafeSegment(safe_name)
          /\ SafeSegment(safe_year)
          /\ out.s = s_Aarsrapport_ \o safe_year \o <<"_">> \o safe_name \o s_docx
          /\ SafeSegment(out.s)

\* A name with a path separator on both sides of a letter, and a year and
\* an id that hold nothing but reserved characters, dots and blanks: the
\* name keeps its letter and the year falls back to "year".
C15_Witness ==
    /\ fn = "build_output_filename"
    /\ args.person_name = <<"/", "a", "\\">>
    /\ args.report_year = PyStr(<<"/", " ">>)
    /\ args.person_id = PyStr(<<".", ".", "/">>)
    /\ out.s = s_Aarsrapport_ \o s_year \o <<"_", "a">> \o s_docx

\* person_id, as a string and trimmed, is one or more of the digits 0 to 9.
IsDigitString(id) ==
    LET text == strip(str(id)) IN
    text # <<>> /\ \A i \in 1..Len(text) : InSeq(DigitChars, text[i])

\* C16: when person_id is not a non-empty string of digits once trimmed,
\* fetch_publications, fetch_person_details and generate_report end with
\* ValueError at their validation: no page and no person record is ever
\* requested and the output file is never touched.
C16_InvalidIdFailsBeforeAnyEffect ==
    ~IsDigitString(person_id) =>
        /\ pc \in {"start", "person_start", "done"}
        /\ pc = "done" => ret = Raise("ValueError")
        /\ requested = <<>>
        /\ person_fetch = "none"
        /\ output_file.now = output_file.before

\* The category code of the record triggers a rule of its own: it is a
\* non-publication code, ARTICLE or TEXTBOOK.
HasCodeRule(item) ==
    \/ IsNonPublicationCode(extract_category_code_name(item)[1])
    \/ extract_category_code_name(item)[1] \in {PyStr(s_ARTICLE), PyStr(s_TEXTBOOK)}

\* The normalized label of the record holds "book review" or "bokanmeldelse".
IsBookReviewLabel(item) ==
    LET category_label == extract_category_code_name(item)[2] IN
    /\ IsStr(category_label)
    /\ \/ Contains(normalize_text(category_label.s), s_book_review)
       \/ Contains(normalize_text(category_label.s), s_bokanmeldelse)

\* C17: a record whose code has no rule of its own and whose normalized
\* label holds "book review" or "bokanmeldelse" is classified as
\* publisert_book_review, whatever its level, its journal and channel, and
\* whatever other rule words ("book", "edited", "article") the label holds.
C17_BookReviewBeforeBook ==
    (fn = "classify_publication" /\ ~HasCodeRule(args.item) /\ IsBookReviewLabel(args.item))
        => out = PyStr(s_publisert_book_review)

\* A label "Edited book review", which also matches the monograph and the
\* anthology rule, on a record of level 2 without a code.
C17_Witness ==
    /\ fn = "classify_publication"
    /\ args.item.d.category = Category(Absent, PyMap(<<PyStr(s_empty), PyStr(s_Edited_book_review)>>))
    /\ args.item.d.level = PyStr(<<"2">>)
    /\ out = PyStr(s_publisert_book_review)

\* The value a record holds under key, or under key of its container when
\* the container is a mapping; Absent otherwise.
Held(item, container, key) ==
    IF container = "" THEN item.d[key]
    ELSE IF item.d[container].k = "dict" /\ key \in DOMAIN item.d[container].d
    THEN item.d[container].d[key]
    ELSE Absent

\* The candidates of C18 in their fixed order.
ClaimedCandidates(item) ==
    << Held(item, "", "level"), Held(item, "", "publication_level"),
       Held(item, "", "scientific_level"),
       Held(item, "publication_context", "level"), Held(item, "publicationContext", "level"),
       Held(item, "publication_channel", "level"), Held(item, "publicationChannel", "level"),
       Held(item, "channel", "level"), Held(item, "journal", "level"),
       Held(item, "channel", "nvi_level"), Held(item, "journal", "nvi_level") >>

\* The level C18 describes: the string form of the first candidate that is
\* 1, 2, "1" or "2"; None when there is none.
ClaimedLevel(item) ==
    LET candidates == ClaimedCandidates(item)
        hits == {i \in 1..Len(candidates) :
                    candidates[i] \in {PyInt(1), PyInt(2), PyStr(<<"1">>), PyStr(<<"2">>)}} IN
    IF hits = {} THEN None
    ELSE PyStr(str(candidates[CHOOSE i \in hits : \A j \in hits : i <= j]))

LevelledPrefixes ==
    {s_publisert_monografi_niva, s_publisert_artikkel_niva, s_publisert_antologi_niva}

\* C18: extract_level returns the string form of the first candidate, in
\* the order of its list, whose value is 1, 2, "1" or "2"; it skips a
\* candidate that is absent or holds anything else, and returns None when
\* none qualifies. classify_publication, when a levelled rule applies,
\* returns the prefix of the rule followed by that level, or by 1 when
\* there is none.
C18_LevelIsFirstQualifyingCandidate ==
    /\ fn = "extract_level" => out = ClaimedLevel(args.item)
    /\ fn = "classify_publication" =>
          /\ extract_category_code_name(args.item)[1] \in {PyStr(s_ARTICLE), PyStr(s_TEXTBOOK)}
                => out.k = "str"
          /\ \A prefix \in LevelledPrefixes :
                (out.k = "str" /\ Len(out.s) > Len(prefix)
                    /\ SubSeq(out.s, 1, Len(prefix)) = prefix)
                => out.s = prefix \o str(Or(ClaimedLevel(args.item), PyStr(<<"1">>)))

\* The one name C19 gives an affiliation: its name string trimmed, or the
\* first text of its multilingual name; <<>> when it has none.
ClaimedAffiliationName(aff) ==
    LET name_obj == aff.d.organization.d.name IN
    IF name_obj.k = "map" THEN strip(str(Or(FirstTruthy(name_obj.m), PyStr(s_empty))))
    ELSE IF name_obj.k = "str" THEN strip(name_obj.s)
    ELSE <<>>

\* The affiliations of a person payload, in order.
AffiliationsOf(person) ==
    IF person.d.affiliations # Absent THEN person.d.affiliations.l
    ELSE IF person.d.employments # Absent THEN person.d.employments.l
    ELSE <<>>

\* C19: primary is the name of the first affiliation that has one,
\* secondary the name of the next affiliation whose name differs from
\* primary, or empty when there is none; every affiliation contributes one
\* name only, and primary and secondary differ unless both are empty.
C19_OneNamePerAffiliation ==
    fn = "extract_affiliation_names" =>
        LET affs == AffiliationsOf(args.person)
            named == {i \in 1..Len(affs) : ClaimedAffiliationName(affs[i]) # <<>>}
            first == IF named = {} THEN 0 ELSE CHOOSE i \in named : \A j \in named : i <= j
            primary == IF first = 0 THEN <<>> ELSE ClaimedAffiliationName(affs[first])
            others == {i \in named : i > first /\ ClaimedAffiliationName(affs[i]) # primary}
            second == IF others = {} THEN 0 ELSE CHOOSE i \in others : \A j \in others : i <= j
            secondary == IF second = 0 THEN <<>> ELSE ClaimedAffiliationName(affs[second])
        IN
        /\ out.t = <<primary, secondary>>
        /\ out.t[1] = out.t[2] => out.t = << <<>>, <<>> >>

\* build_auto_manual_fields files the record under a manual field of the
\* report of that year.
FiledAsManualField(item, year) ==
    extract_year(item) = str(year) /\ manual_key_of(item).k = "str"

\* C20: no record is reported twice: build_entries returns no entry for a
\* record of the target year that build_auto_manual_fields files under a
\* manual field, so it returns at most one entry for each record of the
\* target year that is not filed there.
C20_NoRecordReportedTwice ==
    (fn = "build_entries" /\ out.k = "list") =>
        Len(out.l) <= Cardinality({i \in 1..Len(args.items) :
                          /\ extract_year(args.items[i]) = str(args.report_year)
                          /\ ~FiledAsManualField(args.items[i], args.report_year)})
====
